---- MODULE Spec2Model ----
(***************************************************************************)
(* A model of AwsFileManager (src/lib/aws-file-manager.ts): key            *)
(* resolution, the object operations and the object store they talk to.    *)
(*                                                                         *)
(* Strings are sequences of one-character strings, so that the slash       *)
(* stripping, the joins and the extension extraction are computed          *)
(* character by character as the code computes them.  An optional value    *)
(* of the TypeScript interfaces is <<>> when it is undefined and <<v>>     *)
(* when it is given.                                                       *)
(***************************************************************************)
EXTENDS Integers, Sequences, FiniteSets, TLC

VARIABLES config, instance, basePath, objects, denied, issued, calls

vars == <<config, instance, basePath, objects, denied, issued, calls>>

(***************************************************************************)
(* Optional values and strings                                             *)
(***************************************************************************)
None == <<>>

Some(v) == <<v>>

IsGiven(o) == o # <<>>

\* JavaScript truthiness of an optional string: undefined and "" are falsy.
Truthy(o) == o # <<>> /\ Len(o[1]) > 0

\* a ?? b on an optional string
OrElse(o, d) == IF o # <<>> THEN o[1] ELSE d

Includes(s, ch) == \E i \in 1..Len(s) : s[i] = ch

\* 1-based position of the last occurrence of ch in s, 0 when there is none
LastIndexOf(s, ch) ==
    IF Includes(s, ch)
    THEN CHOOSE i \in 1..Len(s) : s[i] = ch /\ \A j \in (i+1)..Len(s) : s[j] # ch
    ELSE 0

\* 1-based position of the first occurrence of ch in s, 0 when there is none
IndexOf(s, ch) ==
    IF Includes(s, ch)
    THEN CHOOSE i \in 1..Len(s) : s[i] = ch /\ \A j \in 1..(i-1) : s[j] # ch
    ELSE 0

\* s.substring(i) with a 1-based i
SubstringFrom(s, i) == SubSeq(s, i, Len(s))

\* s.replace(/^\/|\/$/g, ""): one slash off the front, one off the end
StripSlash(s) ==
    LET a == IF Len(s) > 0 /\ s[1] = "/" THEN Tail(s) ELSE s
    IN  IF Len(a) > 0 /\ a[Len(a)] = "/" THEN SubSeq(a, 1, Len(a) - 1) ELSE a

\* parts.filter((part) => part.length > 0)
FilterNonEmpty(parts) == SelectSeq(parts, LAMBDA p : Len(p) > 0)

RECURSIVE Join(_)
\* parts.join("/")
Join(parts) ==
    IF Len(parts) = 0 THEN <<>>
    ELSE IF Len(parts) = 1 THEN parts[1]
    ELSE parts[1] \o <<"/">> \o Join(Tail(parts))

\* s.split("/").pop(): the text after the last slash, all of s without one
SplitPop(s) == SubstringFrom(s, LastIndexOf(s, "/") + 1)

\* the values randomUUID() can return: same length, no slash and no dot
UUIDs == {<<"0", "-", "a">>, <<"0", "-", "b">>, <<"1", "-", "a">>}

(***************************************************************************)
(* Private helpers of AwsFileManager                                       *)
(***************************************************************************)
DefaultUrlExpirationSeconds == 3600

ConfigError(message) == [name |-> "Error", message |-> message]

\* the bucket name is not looked at
Construct_NoBucketCheck(cfg) ==
    IF cfg.region = ""
    THEN [status |-> "threw", error |-> ConfigError("AWS region is required"),
          s3 |-> None]
    ELSE [status |-> "constructed", error |-> [name |-> "none"],
          bucketName |-> cfg.bucketName,
          urlExpirationSeconds |->
              OrElse(cfg.urlExpirationSeconds, DefaultUrlExpirationSeconds),
          s3 |-> Some([region |-> cfg.region])]

\* the constructor: the instance it leaves, or the error it throws before
\* any S3Client is created
Construct(cfg) ==
    IF cfg.region = ""
    THEN [status |-> "threw", error |-> ConfigError("AWS region is required"),
          s3 |-> None]
    ELSE IF cfg.bucketName = ""
    THEN [status |-> "threw", error |-> ConfigError("S3 bucket name is required"),
          s3 |-> None]
    ELSE [status |-> "constructed", error |-> [name |-> "none"],
          bucketName |-> cfg.bucketName,
          urlExpirationSeconds |->
              OrElse(cfg.urlExpirationSeconds, DefaultUrlExpirationSeconds),
          s3 |-> Some([region |-> cfg.region])]

\* the constructor's normalisation of config.basePath
NormalBasePath(cfg) ==
    IF Truthy(cfg.basePath) THEN StripSlash(cfg.basePath[1]) ELSE <<>>

buildFullKey(fileName, folder) ==
    LET folderPart == IF Truthy(folder) THEN StripSlash(folder[1]) ELSE <<>>
    IN  Join(FilterNonEmpty(<<basePath, folderPart, fileName>>))

\* the folder goes into the prefix as given, slashes and all
buildPrefix_RawFolder(folder, prefix) ==
    LET folderPart == IF Truthy(folder) THEN folder[1] ELSE <<>>
    IN  Join(FilterNonEmpty(<<basePath, folderPart, OrElse(prefix, <<>>)>>))

\* the prefix a list call asks for
buildPrefix(folder, prefix) ==
    LET folderPart == IF Truthy(folder) THEN StripSlash(folder[1]) ELSE <<>>
    IN  Join(FilterNonEmpty(<<basePath, folderPart, OrElse(prefix, <<>>)>>))

ExtensionOf(originalName) ==
    IF Includes(originalName, ".")
    THEN SubstringFrom(originalName, LastIndexOf(originalName, "."))
    ELSE <<>>

\* a timestamp in place of the UUID: the same for calls within one clock tick
makeUniqueFileName_Timestamp(originalName, uuid) ==
    <<"0", "-", "0">> \o ExtensionOf(originalName)

\* indexOf in place of lastIndexOf
makeUniqueFileName_FirstDot(originalName, uuid) ==
    uuid \o (IF Includes(originalName, ".")
             THEN SubstringFrom(originalName, IndexOf(originalName, "."))
             ELSE <<>>)

\* uuid is the value randomUUID() returns to this call
makeUniqueFileName(originalName, uuid) == uuid \o ExtensionOf(originalName)

\* the explicit key run through the key builder like a filename
resolveKey_KeyMerged(originalName, options, uuid) ==
    IF Truthy(options.key)
    THEN [key |-> buildFullKey(options.key[1], options.folder),
          storedName |-> SplitPop(options.key[1])]
    ELSE LET storedName ==
                 IF options.generateUniqueFileName
                 THEN makeUniqueFileName(originalName, uuid)
                 ELSE OrElse(options.fileName, originalName)
         IN  [key |-> buildFullKey(storedName, options.folder),
              storedName |-> storedName]

resolveKey(originalName, options, uuid) ==
    IF Truthy(options.key)
    THEN [key |-> options.key[1], storedName |-> SplitPop(options.key[1])]
    ELSE LET storedName ==
                 IF options.generateUniqueFileName
                 THEN makeUniqueFileName(originalName, uuid)
                 ELSE OrElse(options.fileName, originalName)
         IN  [key |-> buildFullKey(storedName, options.folder),
              storedName |-> storedName]

\* whether resolveKey consumes a value of randomUUID()
DrawsUuid(options) == ~Truthy(options.key) /\ options.generateUniqueFileName

(***************************************************************************)
(* Module-level utilities                                                  *)
(***************************************************************************)
ChunkSize == 1000

\* the name is not compared
isNoSuchKeyError_AnyName(error) == "name" \in DOMAIN error

isNoSuchKeyError(error) ==
    "name" \in DOMAIN error /\ error.name = "NoSuchKey"

RECURSIVE chunkArray_SkipOne(_, _)
\* the loop steps by size + 1: the key after each full chunk is skipped
chunkArray_SkipOne(arr, size) ==
    IF Len(arr) = 0 THEN <<>>
    ELSE IF Len(arr) <= size THEN <<arr>>
    ELSE <<SubSeq(arr, 1, size)>>
         \o chunkArray_SkipOne(SubSeq(arr, size + 2, Len(arr)), size)

RECURSIVE chunkArray(_, _)
\* the loop of chunkArray: slice(i, i + size) for i = 0, size, 2 * size, ...
chunkArray(arr, size) ==
    IF Len(arr) = 0 THEN <<>>
    ELSE IF Len(arr) <= size THEN <<arr>>
    ELSE <<SubSeq(arr, 1, size)>> \o chunkArray(SubSeq(arr, size + 1, Len(arr)), size)

(***************************************************************************)
(* The object store (S3), as the client sees it                            *)
(***************************************************************************)
NoError == [name |-> "none"]

\* a metadata map is a set of <<name, value>> pairs; this is the empty one
NoMetadata == {}

Request(op, key, body, chunk) ==
    [op |-> op, key |-> key, body |-> body, chunk |-> chunk,
     metadata |-> NoMetadata,
     st |-> "inflight", error |-> NoError, response |-> <<>>]

\* `${bucket}/${sourceKey}`: the bucket name, a slash, the characters of
\* the key
CopySource(bucket, sourceKey) == <<bucket, "/">> \o sourceKey

\* the key the store reads out of a copy source: what follows the bucket
\* name and its slash
SourceKeyOf(source) == SubSeq(source, 3, Len(source))

\* a CopyObject request; directive is None when MetadataDirective is left out
CopyRequest(source, key, meta, directive) ==
    [op |-> "CopyObject", key |-> key, body |-> <<>>, chunk |-> 1,
     metadata |-> meta, source |-> source, directive |-> directive,
     st |-> "inflight", error |-> NoError, response |-> <<>>]

\* a ListObjectsV2 request; prefix and token are None when left out
ListRequest(prefix, maxKeys, token) ==
    [op |-> "ListObjectsV2", key |-> OrElse(prefix, <<>>), body |-> <<>>,
     chunk |-> 1, metadata |-> NoMetadata,
     prefix |-> prefix, maxKeys |-> maxKeys, token |-> token,
     st |-> "inflight", error |-> NoError, response |-> <<>>]

Refused(op, key) == \E t \in denied : t[1] = op /\ t[2] = key

RefusalName(op, key) == (CHOOSE t \in denied : t[1] = op /\ t[2] = key)[3]

\* the error the store raises for a request, NoError when it serves it
StoreError(req) ==
    IF Refused(req.op, req.key)
    THEN [name |-> RefusalName(req.op, req.key), op |-> req.op, key |-> req.key]
    ELSE IF req.op = "GetObject" /\ req.key \notin DOMAIN objects
    THEN [name |-> "NoSuchKey", op |-> req.op, key |-> req.key]
    ELSE IF req.op = "CopyObject" /\ SourceKeyOf(req.source) \notin DOMAIN objects
    THEN [name |-> "NoSuchKey", op |-> req.op, key |-> SourceKeyOf(req.source)]
    ELSE NoError

\* an object of the bucket: its bytes and its user metadata
Object(bytes, meta) == [body |-> bytes, metadata |-> meta]

\* the response to a served request: GetObject carries the object's body
\* and metadata
StoreResponse(req) ==
    IF req.op = "GetObject"
    THEN Some([Body |-> <<objects[req.key].body>>,
               Metadata |-> objects[req.key].metadata])
    ELSE Some([ETag |-> req.key])

\* the object a served copy writes at its destination: the source's bytes,
\* with the request's metadata under REPLACE and the source's otherwise
CopiedObject(req) ==
    LET from == objects[SourceKeyOf(req.source)]
    IN  Object(from.body,
               IF OrElse(req.directive, "COPY") = "REPLACE"
               THEN req.metadata ELSE from.metadata)

\* the objects after a request: a put overwrites, a copy overwrites its
\* destination, a delete of an absent key changes nothing and succeeds
StoreEffect(req) ==
    IF StoreError(req) # NoError THEN objects
    ELSE IF req.op = "PutObject"
    THEN [k \in DOMAIN objects \cup {req.key} |->
             IF k = req.key THEN Object(req.body, req.metadata) ELSE objects[k]]
    ELSE IF req.op = "CopyObject"
    THEN [k \in DOMAIN objects \cup {req.key} |->
             IF k = req.key THEN CopiedObject(req) ELSE objects[k]]
    ELSE IF req.op = "DeleteObject"
    THEN [k \in DOMAIN objects \ {req.key} |-> objects[k]]
    ELSE objects

\* --- listing: keys in byte order, a page at a time
\* the characters of the keys, in byte order
Alphabet == <<"-", ".", "/", "0", "1", "a", "b", "c", "d", "j", "p">>

RankOf(ch) == CHOOSE i \in 1..Len(Alphabet) : Alphabet[i] = ch

StartsWith(s, pre) == Len(pre) <= Len(s) /\ SubSeq(s, 1, Len(pre)) = pre

\* a sorts before b: at the first position where they differ a has the
\* lower character, or a has ended
KeyLess(a, b) ==
    \E i \in 1..Len(b) :
        /\ i - 1 <= Len(a)
        /\ \A j \in 1..(i - 1) : a[j] = b[j]
        /\ \/ Len(a) = i - 1
           \/ RankOf(a[i]) < RankOf(b[i])

\* the keys of the set S, in order: the i-th has i - 1 keys before it
SortedKeys(S) ==
    [i \in 1..Cardinality(S) |->
        CHOOSE k \in S : Cardinality({j \in S : KeyLess(j, k)}) = i - 1]

\* the most keys the store puts on one page
StorePageLimit == 1000

\* the cursor the store hands out after a page ending at key last, and the
\* key a cursor stands for
TokenAfter(last) == <<"?">> \o last

TokenKey(token) == Tail(token)

\* the keys a bucket that is listed may hold, and the order the store
\* lists them in
ListableKeys ==
    {<<"a">>, <<"b", "/", "c">>, <<"d", "/", "a">>, <<"d", "/", "b">>,
     <<"d", "/", "c", "/", "p", ".", "j">>, <<"d", "-", "1">>}

KeyOrder == SortedKeys(ListableKeys)

\* the keys a list request still has to be given: those under its prefix
\* that come after its cursor, in order
RemainingKeys(req) ==
    SelectSeq(KeyOrder,
              LAMBDA k :
                  /\ k \in DOMAIN objects
                  /\ StartsWith(k, OrElse(req.prefix, <<>>))
                  /\ IsGiven(req.token) => KeyLess(TokenKey(req.token[1]), k))

PageOf(req) ==
    LET rest == RemainingKeys(req)
        n == IF req.maxKeys < StorePageLimit THEN req.maxKeys ELSE StorePageLimit
    IN  SubSeq(rest, 1, IF Len(rest) < n THEN Len(rest) ELSE n)

\* the response to a served list request.  A page that is not the last
\* carries IsTruncated = true and the next cursor; the last page carries
\* no cursor, and either IsTruncated = false or (omits) no flag at all.
\* Contents is left out when the page is empty.
ListResponse(req, omits) ==
    LET page == PageOf(req)
        more == Len(page) < Len(RemainingKeys(req))
    IN  Some([Contents |->
                  IF Len(page) = 0 THEN None
                  ELSE Some([i \in 1..Len(page) |->
                                [Key |-> page[i], Size |-> Len(objects[page[i]].body)]]),
              IsTruncated |-> IF more THEN Some(TRUE)
                              ELSE IF omits THEN None ELSE Some(FALSE),
              NextContinuationToken |->
                  IF more THEN Some(TokenAfter(page[Len(page)])) ELSE None])

AnsweredList(req, omits) ==
    IF StoreError(req) # NoError
    THEN [req EXCEPT !.st = "failed", !.error = StoreError(req)]
    ELSE [req EXCEPT !.st = "ok", !.response = ListResponse(req, omits)]

\* the request once the store has answered it
Answered(req) ==
    IF StoreError(req) # NoError
    THEN [req EXCEPT !.st = "failed", !.error = StoreError(req)]
    ELSE [req EXCEPT !.st = "ok", !.response = StoreResponse(req)]

(***************************************************************************)
(* Calls of the client.  A call runs synchronously up to its await of      *)
(* s3.send (the requests it has sent are in reqs); its continuation runs   *)
(* when the store answers.                                                 *)
(***************************************************************************)
NoResult == [none |-> TRUE]

IdleCall ==
    [op |-> "none", status |-> "idle", args |-> <<>>, resolved |-> <<>>,
     reqs |-> <<>>, result |-> NoResult, error |-> NoError]

Pending(op, args, resolved, reqs) ==
    [op |-> op, status |-> "pending", args |-> args, resolved |-> resolved,
     reqs |-> reqs, result |-> NoResult, error |-> NoError]

Returned(call, reqs, result) ==
    [call EXCEPT !.status = "returned", !.reqs = reqs, !.result = result]

Thrown(call, reqs, error) ==
    [call EXCEPT !.status = "thrown", !.reqs = reqs, !.error = error]

InFlight(c, i) ==
    /\ i \in 1..Len(calls[c].reqs)
    /\ calls[c].reqs[i].st = "inflight"

(***************************************************************************)
(* upload                                                                  *)
(***************************************************************************)
\* the put is sent at the stored name, without its folder
UploadRequests_AtStoredName(resolved, file, options) ==
    <<[Request("PutObject", resolved.storedName, file.buffer, 1)
          EXCEPT !.metadata = OrElse(options.metadata, NoMetadata)]>>

UploadRequests(resolved, file, options) ==
    <<[Request("PutObject", resolved.key, file.buffer, 1)
          EXCEPT !.metadata = OrElse(options.metadata, NoMetadata)]>>

UploadResult(call) ==
    [key |-> call.resolved.key,
     originalName |-> call.args.file.originalName,
     storedName |-> call.resolved.storedName,
     size |-> call.args.file.size]

UploadWith(c, file, options, uuid) ==
    LET resolved == resolveKey(file.originalName, options, uuid)
    IN  /\ calls' = [calls EXCEPT ![c] =
                        Pending("upload", [file |-> file, options |-> options],
                                resolved, UploadRequests(resolved, file, options))]
        /\ issued' = IF DrawsUuid(options) THEN issued \cup {uuid} ELSE issued
        /\ UNCHANGED <<config, instance, basePath, objects, denied>>

Upload(c, file, options) ==
    /\ calls[c].status = "idle"
    /\ IF DrawsUuid(options)
       THEN \E uuid \in UUIDs \ issued : UploadWith(c, file, options, uuid)
       ELSE UploadWith(c, file, options, <<>>)

UploadContinue(call, req) ==
    IF req.st = "failed"
    THEN Thrown(call, <<req>>, req.error)
    ELSE Returned(call, <<req>>, UploadResult(call))

UploadRespond(c) ==
    /\ calls[c].op = "upload"
    /\ InFlight(c, 1)
    /\ LET req == Answered(calls[c].reqs[1])
       IN  /\ calls' = [calls EXCEPT ![c] = UploadContinue(calls[c], req)]
           /\ objects' = StoreEffect(calls[c].reqs[1])
    /\ UNCHANGED <<config, instance, basePath, denied, issued>>

(***************************************************************************)
(* download                                                                *)
(***************************************************************************)
Null == [absent |-> TRUE]

\* the Readable the store hands out: the object's bytes, one chunk per byte
StreamOf(bytes) == [i \in 1..Len(bytes) |-> <<bytes[i]>>]

RECURSIVE BufferConcat_Reversed(_)
\* the chunks are joined last chunk first
BufferConcat_Reversed(chunks) ==
    IF Len(chunks) = 0 THEN <<>>
    ELSE BufferConcat_Reversed(Tail(chunks)) \o chunks[1]

RECURSIVE BufferConcat(_)
\* Buffer.concat(chunks)
BufferConcat(chunks) ==
    IF Len(chunks) = 0 THEN <<>>
    ELSE chunks[1] \o BufferConcat(Tail(chunks))

DownloadRequests(key) == <<Request("GetObject", key, <<>>, 1)>>

Download(c, key, mode) ==
    /\ calls[c].status = "idle"
    /\ calls' = [calls EXCEPT ![c] =
                    Pending("download", [key |-> key, mode |-> mode], <<>>,
                            DownloadRequests(key))]
    /\ UNCHANGED <<config, instance, basePath, objects, denied, issued>>

\* every other error is thrown wrapped in a new error
DownloadCatch_Wrapped(call, req, error) ==
    IF isNoSuchKeyError(error)
    THEN Returned(call, <<req>>, Null)
    ELSE Thrown(call, <<req>>, [name |-> "Error", cause |-> error])

\* the catch block of download
DownloadCatch(call, req, error) ==
    IF isNoSuchKeyError(error)
    THEN Returned(call, <<req>>, Null)
    ELSE Thrown(call, <<req>>, error)

DownloadContinue(call, req) ==
    IF req.st = "failed"
    THEN DownloadCatch(call, req, req.error)
    ELSE LET Body == req.response[1].Body
         IN  IF ~IsGiven(Body)
             THEN Returned(call, <<req>>, Null)
             ELSE IF OrElse(call.args.mode, "stream") = "buffer"
             THEN [call EXCEPT !.reqs = <<req>>,
                               !.resolved = [chunks |-> <<>>,
                                             stream |-> StreamOf(Body[1]),
                                             failure |-> None]]
             ELSE Returned(call, <<req>>,
                           [absent |-> FALSE, mode |-> "stream",
                            metadata |-> req.response[1].Metadata,
                            stream |-> StreamOf(Body[1])])

DownloadRespond(c) ==
    /\ calls[c].op = "download"
    /\ InFlight(c, 1)
    /\ calls' = [calls EXCEPT ![c] =
                    DownloadContinue(calls[c], Answered(calls[c].reqs[1]))]
    /\ objects' = StoreEffect(calls[c].reqs[1])
    /\ UNCHANGED <<config, instance, basePath, denied, issued>>

\* download in buffer mode is waiting on the events of the body stream
Draining(c) ==
    /\ calls[c].op = "download"
    /\ calls[c].status = "pending"
    /\ calls[c].reqs[1].st = "ok"

\* stream.on("data", ...): the next chunk of the stream is pushed on chunks
StreamData(c) ==
    /\ Draining(c)
    /\ Len(calls[c].resolved.stream) > 0
    /\ calls' = [calls EXCEPT ![c].resolved =
                    [chunks |-> Append(calls[c].resolved.chunks,
                                       Head(calls[c].resolved.stream)),
                     stream |-> Tail(calls[c].resolved.stream),
                     failure |-> None]]
    /\ UNCHANGED <<config, instance, basePath, objects, denied, issued>>

\* only the chunk that came last is kept
DrainedResult_LastChunk(call) ==
    [absent |-> FALSE, mode |-> "buffer",
     metadata |-> call.reqs[1].response[1].Metadata,
     buffer |-> IF Len(call.resolved.chunks) = 0 THEN <<>>
                ELSE call.resolved.chunks[Len(call.resolved.chunks)]]

\* the buffer download resolves with once the stream has ended
DrainedResult(call) ==
    [absent |-> FALSE, mode |-> "buffer",
     metadata |-> call.reqs[1].response[1].Metadata,
     buffer |-> BufferConcat(call.resolved.chunks)]

\* stream.on("end", ...): the stream, with no chunk left, signals its end
StreamEnd(c) ==
    /\ Draining(c)
    /\ Len(calls[c].resolved.stream) = 0
    /\ calls' = [calls EXCEPT ![c] =
                    Returned(calls[c], calls[c].reqs, DrainedResult(calls[c]))]
    /\ UNCHANGED <<config, instance, basePath, objects, denied, issued>>

\* stream.on("error", reject): the stream fails before its end (failure
\* keeps the error it emitted); the rejection is thrown inside the try
\* block of download
StreamError(c, error) ==
    /\ Draining(c)
    /\ calls' = [calls EXCEPT ![c] =
                    DownloadCatch([calls[c] EXCEPT !.resolved.failure = Some(error)],
                                  calls[c].reqs[1], error)]
    /\ UNCHANGED <<config, instance, basePath, objects, denied, issued>>

(***************************************************************************)
(* exists                                                                  *)
(***************************************************************************)
ExistsRequests(key) == <<Request("GetObject", key, <<>>, 1)>>

Exists(c, key) ==
    /\ calls[c].status = "idle"
    /\ calls' = [calls EXCEPT ![c] =
                    Pending("exists", [key |-> key], <<>>, ExistsRequests(key))]
    /\ UNCHANGED <<config, instance, basePath, objects, denied, issued>>

\* every failure is taken for absence
ExistsContinue_Swallow(call, req) ==
    IF req.st = "failed"
    THEN Returned(call, <<req>>, [value |-> FALSE])
    ELSE Returned(call, <<req>>, [value |-> TRUE])

ExistsContinue(call, req) ==
    IF req.st = "failed"
    THEN IF isNoSuchKeyError(req.error)
         THEN Returned(call, <<req>>, [value |-> FALSE])
         ELSE Thrown(call, <<req>>, req.error)
    ELSE Returned(call, <<req>>, [value |-> TRUE])

ExistsRespond(c) ==
    /\ calls[c].op = "exists"
    /\ InFlight(c, 1)
    /\ calls' = [calls EXCEPT ![c] =
                    ExistsContinue(calls[c], Answered(calls[c].reqs[1]))]
    /\ objects' = StoreEffect(calls[c].reqs[1])
    /\ UNCHANGED <<config, instance, basePath, denied, issued>>

\* the store's answer to a get, with the body left out of a success when
\* bodyless says so
WithoutBody(req, bodyless) ==
    IF bodyless /\ req.st = "ok"
    THEN [req EXCEPT !.response = Some([req.response[1] EXCEPT !.Body = None])]
    ELSE req

\* download's get is answered, with or without a body
DownloadRespondWith(c, bodyless) ==
    /\ calls[c].op = "download"
    /\ InFlight(c, 1)
    /\ calls' = [calls EXCEPT ![c] =
                    DownloadContinue(calls[c],
                                     WithoutBody(Answered(calls[c].reqs[1]),
                                                 bodyless))]
    /\ objects' = StoreEffect(calls[c].reqs[1])
    /\ UNCHANGED <<config, instance, basePath, denied, issued>>

\* exists' get is answered, with or without a body
ExistsRespondWith(c, bodyless) ==
    /\ calls[c].op = "exists"
    /\ InFlight(c, 1)
    /\ calls' = [calls EXCEPT ![c] =
                    ExistsContinue(calls[c],
                                   WithoutBody(Answered(calls[c].reqs[1]),
                                               bodyless))]
    /\ objects' = StoreEffect(calls[c].reqs[1])
    /\ UNCHANGED <<config, instance, basePath, denied, issued>>

(***************************************************************************)
(* delete                                                                  *)
(***************************************************************************)
Void == [void |-> TRUE]

\* an existence probe ahead of the delete
DeleteRequests_PreCheck(key) ==
    <<Request("GetObject", key, <<>>, 1), Request("DeleteObject", key, <<>>, 1)>>

\* what delete(key) sends before its await
DeleteRequests(key) == <<Request("DeleteObject", key, <<>>, 1)>>

Delete(c, key) ==
    /\ calls[c].status = "idle"
    /\ calls' = [calls EXCEPT ![c] =
                    Pending("delete", [key |-> key], <<>>, DeleteRequests(key))]
    /\ UNCHANGED <<config, instance, basePath, objects, denied, issued>>

DeleteContinue(call, req) ==
    IF req.st = "failed"
    THEN Thrown(call, <<req>>, req.error)
    ELSE Returned(call, <<req>>, Void)

DeleteRespond(c) ==
    /\ calls[c].op = "delete"
    /\ InFlight(c, 1)
    /\ calls' = [calls EXCEPT ![c] =
                    DeleteContinue(calls[c], Answered(calls[c].reqs[1]))]
    /\ objects' = StoreEffect(calls[c].reqs[1])
    /\ UNCHANGED <<config, instance, basePath, denied, issued>>

(***************************************************************************)
(* deleteMany                                                              *)
(***************************************************************************)
\* the map starts at the second key of the chunk
ChunkRequests_DropFirst(chunk, j) ==
    [k \in 1..(Len(chunk) - 1) |-> Request("DeleteObject", chunk[k + 1], <<>>, j)]

\* chunk.map((key) => this.delete(key)) for chunk number j
ChunkRequests(chunk, j) ==
    [k \in 1..Len(chunk) |-> Request("DeleteObject", chunk[k], <<>>, j)]

RECURSIVE MapChunks(_, _)
\* chunks.map(...), from chunk number j on: the requests in the order sent
MapChunks(chunks, j) ==
    IF j > Len(chunks) THEN <<>>
    ELSE ChunkRequests(chunks[j], j) \o MapChunks(chunks, j + 1)

DeleteManyRequests(keys) == MapChunks(chunkArray(keys, ChunkSize), 1)

\* Promise.allSettled: fulfilled once nothing is pending, never rejected
PromiseAll_Settled(sts) ==
    IF "inflight" \in sts THEN "inflight" ELSE "ok"

\* the state of Promise.all over promises whose states are sts
PromiseAll(sts) ==
    IF "failed" \in sts THEN "failed"
    ELSE IF "inflight" \in sts THEN "inflight"
    ELSE "ok"

\* Promise.all over the deletes of chunk j
ChunkPromise(reqs, j) ==
    PromiseAll({reqs[i].st : i \in {n \in 1..Len(reqs) : reqs[n].chunk = j}})

\* the outer Promise.all, over the promises of the chunks
DeleteManyPromise(reqs) ==
    PromiseAll({ChunkPromise(reqs, j) : j \in {reqs[i].chunk : i \in 1..Len(reqs)}})

DeleteMany(c, keys) ==
    /\ calls[c].status = "idle"
    /\ LET reqs == DeleteManyRequests(keys)
           call == Pending("deleteMany", [keys |-> keys], <<>>, reqs)
       IN  calls' = [calls EXCEPT ![c] =
                        IF DeleteManyPromise(reqs) = "ok"
                        THEN Returned(call, reqs, Void)
                        ELSE call]
    /\ UNCHANGED <<config, instance, basePath, objects, denied, issued>>

\* a delete of a pending deleteMany is answered: the first failure rejects
\* the call, the last success resolves it; answers after that change nothing
DeleteManyContinue(call, reqs, req) ==
    LET all == DeleteManyPromise(reqs)
    IN  IF call.status # "pending" THEN [call EXCEPT !.reqs = reqs]
        ELSE IF all = "failed" THEN Thrown(call, reqs, req.error)
        ELSE IF all = "ok" THEN Returned(call, reqs, Void)
        ELSE [call EXCEPT !.reqs = reqs]

DeleteManyRespond(c, i) ==
    /\ calls[c].op = "deleteMany"
    /\ InFlight(c, i)
    /\ LET req == Answered(calls[c].reqs[i])
           reqs == [calls[c].reqs EXCEPT ![i] = req]
       IN  calls' = [calls EXCEPT ![c] = DeleteManyContinue(calls[c], reqs, req)]
    /\ objects' = StoreEffect(calls[c].reqs[i])
    /\ UNCHANGED <<config, instance, basePath, denied, issued>>

(***************************************************************************)
(* copy                                                                    *)
(***************************************************************************)
\* an empty metadata map counts as no metadata
CopyRequests_EmptyIsOmitted(sourceKey, destinationKey, options) ==
    <<IF IsGiven(options.metadata) /\ options.metadata[1] # NoMetadata
      THEN CopyRequest(CopySource(instance.bucketName, sourceKey),
                       destinationKey, options.metadata[1], Some("REPLACE"))
      ELSE CopyRequest(CopySource(instance.bucketName, sourceKey),
                       destinationKey, NoMetadata, None)>>

\* what copy sends before its await; options.metadata, a map, is truthy
\* whenever it is given
CopyRequests(sourceKey, destinationKey, options) ==
    <<IF IsGiven(options.metadata)
      THEN CopyRequest(CopySource(instance.bucketName, sourceKey),
                       destinationKey, options.metadata[1], Some("REPLACE"))
      ELSE CopyRequest(CopySource(instance.bucketName, sourceKey),
                       destinationKey, NoMetadata, None)>>

Copy(c, sourceKey, destinationKey, options) ==
    /\ calls[c].status = "idle"
    /\ calls' = [calls EXCEPT ![c] =
                    Pending("copy",
                            [sourceKey |-> sourceKey,
                             destinationKey |-> destinationKey,
                             options |-> options], <<>>,
                            CopyRequests(sourceKey, destinationKey, options))]
    /\ UNCHANGED <<config, instance, basePath, objects, denied, issued>>

CopyContinue(call, req) ==
    IF req.st = "failed"
    THEN Thrown(call, <<req>>, req.error)
    ELSE Returned(call, <<req>>, Void)

CopyRespond(c) ==
    /\ calls[c].op = "copy"
    /\ InFlight(c, 1)
    /\ calls' = [calls EXCEPT ![c] =
                    CopyContinue(calls[c], Answered(calls[c].reqs[1]))]
    /\ objects' = StoreEffect(calls[c].reqs[1])
    /\ UNCHANGED <<config, instance, basePath, denied, issued>>

(***************************************************************************)
(* moveObject (examples/07-copy.ts): copy, then delete of the source       *)
(***************************************************************************)
\* copy called with two arguments: options is the default {}
NoCopyOptions == [storageClass |-> None, metadata |-> None]

MoveObject(c, sourceKey, destKey) ==
    /\ calls[c].status = "idle"
    /\ calls' = [calls EXCEPT ![c] =
                    Pending("moveObject",
                            [sourceKey |-> sourceKey, destKey |-> destKey], <<>>,
                            CopyRequests(sourceKey, destKey, NoCopyOptions))]
    /\ UNCHANGED <<config, instance, basePath, objects, denied, issued>>

\* a failed copy is swallowed and the move goes on
MoveAfterCopy_GoesOn(call, req) == [call EXCEPT !.reqs = <<req>>]

\* await fileManager.copy(...) settles: a rejection ends moveObject, a
\* fulfilment leaves it about to call delete
MoveAfterCopy(call, req) ==
    IF req.st = "failed"
    THEN Thrown(call, <<req>>, req.error)
    ELSE [call EXCEPT !.reqs = <<req>>]

MoveCopyRespond(c) ==
    /\ calls[c].op = "moveObject"
    /\ Len(calls[c].reqs) = 1
    /\ InFlight(c, 1)
    /\ calls' = [calls EXCEPT ![c] =
                    MoveAfterCopy(calls[c], Answered(calls[c].reqs[1]))]
    /\ objects' = StoreEffect(calls[c].reqs[1])
    /\ UNCHANGED <<config, instance, basePath, denied, issued>>

\* the copy has settled and the delete has not been called yet
BetweenSteps(c) ==
    /\ calls[c].op = "moveObject"
    /\ calls[c].status = "pending"
    /\ Len(calls[c].reqs) = 1
    /\ calls[c].reqs[1].st # "inflight"

\* await fileManager.delete(sourceKey), up to its send
MoveDelete(c) ==
    /\ BetweenSteps(c)
    /\ calls' = [calls EXCEPT ![c].reqs =
                    calls[c].reqs \o DeleteRequests(calls[c].args.sourceKey)]
    /\ UNCHANGED <<config, instance, basePath, objects, denied, issued>>

\* the process running moveObject ends between the two steps
MoveStop(c) ==
    /\ BetweenSteps(c)
    /\ calls' = [calls EXCEPT ![c].status = "stopped"]
    /\ UNCHANGED <<config, instance, basePath, objects, denied, issued>>

MoveAfterDelete(call, reqs, req) ==
    IF req.st = "failed"
    THEN Thrown(call, <<reqs[1], req>>, req.error)
    ELSE Returned(call, <<reqs[1], req>>, Void)

MoveDeleteRespond(c) ==
    /\ calls[c].op = "moveObject"
    /\ InFlight(c, 2)
    /\ calls' = [calls EXCEPT ![c] =
                    MoveAfterDelete(calls[c], calls[c].reqs,
                                    Answered(calls[c].reqs[2]))]
    /\ objects' = StoreEffect(calls[c].reqs[2])
    /\ UNCHANGED <<config, instance, basePath, denied, issued>>

(***************************************************************************)
(* uploadIfAbsent (examples/09-exists.ts): exists, then the upload         *)
(***************************************************************************)
\* await fileManager.exists(s3Key), up to its send; uploadFn uploads file
\* to s3Key
UploadIfAbsent(c, s3Key, file) ==
    /\ calls[c].status = "idle"
    /\ calls' = [calls EXCEPT ![c] =
                    Pending("uploadIfAbsent", [s3Key |-> s3Key, file |-> file],
                            <<>>, ExistsRequests(s3Key))]
    /\ UNCHANGED <<config, instance, basePath, objects, denied, issued>>

\* exists settles: a rejection ends uploadIfAbsent, true makes it return
\* without uploading, false leaves it about to call uploadFn
IfAbsentAfterProbe(call, req) ==
    LET probe == ExistsContinue(call, req)
    IN  IF probe.status = "thrown" THEN probe
        ELSE IF probe.result.value THEN Returned(call, <<req>>, Void)
        ELSE [call EXCEPT !.reqs = <<req>>]

IfAbsentProbeRespond(c) ==
    /\ calls[c].op = "uploadIfAbsent"
    /\ Len(calls[c].reqs) = 1
    /\ InFlight(c, 1)
    /\ calls' = [calls EXCEPT ![c] =
                    IfAbsentAfterProbe(calls[c], Answered(calls[c].reqs[1]))]
    /\ objects' = StoreEffect(calls[c].reqs[1])
    /\ UNCHANGED <<config, instance, basePath, denied, issued>>

\* the probe said absent and uploadFn has not been called yet
ProbedAbsent(c) ==
    /\ calls[c].op = "uploadIfAbsent"
    /\ calls[c].status = "pending"
    /\ Len(calls[c].reqs) = 1
    /\ calls[c].reqs[1].st # "inflight"

\* the options uploadFn uploads with: the key, nothing else
KeyOnly(s3Key) ==
    [key |-> Some(s3Key), folder |-> None, fileName |-> None,
     generateUniqueFileName |-> FALSE, metadata |-> None]

\* await uploadFn(), up to the send of its put
IfAbsentUpload(c) ==
    /\ ProbedAbsent(c)
    /\ LET file == calls[c].args.file
           options == KeyOnly(calls[c].args.s3Key)
       IN  calls' = [calls EXCEPT ![c].reqs =
                        calls[c].reqs \o
                        UploadRequests(resolveKey(file.originalName, options, <<>>),
                                       file, options)]
    /\ UNCHANGED <<config, instance, basePath, objects, denied, issued>>

IfAbsentAfterUpload(call, reqs, req) ==
    IF req.st = "failed"
    THEN Thrown(call, <<reqs[1], req>>, req.error)
    ELSE Returned(call, <<reqs[1], req>>, Void)

IfAbsentUploadRespond(c) ==
    /\ calls[c].op = "uploadIfAbsent"
    /\ InFlight(c, 2)
    /\ calls' = [calls EXCEPT ![c] =
                    IfAbsentAfterUpload(calls[c], calls[c].reqs,
                                        Answered(calls[c].reqs[2]))]
    /\ objects' = StoreEffect(calls[c].reqs[2])
    /\ UNCHANGED <<config, instance, basePath, denied, issued>>

(***************************************************************************)
(* list                                                                    *)
(***************************************************************************)
DefaultMaxKeys == 1000

\* the most turns of a pagination loop that are followed
MaxTurns == 6

\* prefix || undefined
PrefixOrUndefined(prefix) == IF Len(prefix) > 0 THEN Some(prefix) ELSE None

\* the caller's cursor is not sent
ListRequests_DropToken(options) ==
    <<ListRequest(PrefixOrUndefined(buildPrefix(options.folder, options.prefix)),
                  OrElse(options.maxResults, DefaultMaxKeys),
                  None)>>

\* what list sends before its await
ListRequests(options) ==
    <<ListRequest(PrefixOrUndefined(buildPrefix(options.folder, options.prefix)),
                  OrElse(options.maxResults, DefaultMaxKeys),
                  options.continuationToken)>>

\* (response.Contents ?? []).map(...)
EntriesOf(response) ==
    LET contents == OrElse(response.Contents, <<>>)
    IN  [i \in 1..Len(contents) |->
            [key |-> contents[i].Key,
             fileName |-> SplitPop(contents[i].Key),
             size |-> contents[i].Size]]

\* hasMore says whether the page has entries
ListResult_MoreWhenEntries(response) ==
    [entries |-> EntriesOf(response),
     continuationToken |-> response.NextContinuationToken,
     hasMore |-> Len(EntriesOf(response)) > 0]

\* the ListResult built from the store's response
ListResult(response) ==
    [entries |-> EntriesOf(response),
     continuationToken |-> response.NextContinuationToken,
     hasMore |-> OrElse(response.IsTruncated, FALSE)]

List(c, options) ==
    /\ calls[c].status = "idle"
    /\ calls' = [calls EXCEPT ![c] =
                    Pending("list", [options |-> options], <<>>,
                            ListRequests(options))]
    /\ UNCHANGED <<config, instance, basePath, objects, denied, issued>>

ListContinue(call, req) ==
    IF req.st = "failed"
    THEN Thrown(call, <<req>>, req.error)
    ELSE Returned(call, <<req>>, ListResult(req.response[1]))

ListRespond(c, omits) ==
    /\ calls[c].op = "list"
    /\ InFlight(c, 1)
    /\ \E req \in {AnsweredList(calls[c].reqs[1], omits)} :
           calls' = [calls EXCEPT ![c] = ListContinue(calls[c], req)]
    /\ UNCHANGED <<config, instance, basePath, objects, denied, issued>>

(***************************************************************************)
(* The pagination loop: list is called again and again, each call seeded   *)
(* with the cursor of the previous result.  The loop of list's doc comment *)
(* goes on while result.hasMore, listAll of examples/08-list-paginated.ts  *)
(* while the cursor is truthy.                                             *)
(***************************************************************************)
ListOptions(folder, prefix, maxResults, token) ==
    [folder |-> folder, prefix |-> prefix, maxResults |-> maxResults,
     continuationToken |-> token]

\* the options of one turn of the loop
TurnOptions(args, token) == ListOptions(args.folder, None, args.maxResults, token)

ListAll(c, folder, maxResults, while) ==
    /\ calls[c].status = "idle"
    /\ LET args == [folder |-> folder, maxResults |-> maxResults, while |-> while]
       IN  calls' = [calls EXCEPT ![c] =
                        Pending("listAll", args,
                                [token |-> None, allEntries |-> <<>>],
                                ListRequests(TurnOptions(args, None)))]
    /\ UNCHANGED <<config, instance, basePath, objects, denied, issued>>

\* the loop ends after its first turn
GoesOn_Never(while, result) == FALSE

\* the loop condition after a turn
GoesOn(while, result) ==
    IF while = "hasMore" THEN result.hasMore ELSE Truthy(result.continuationToken)

\* one turn of the loop once its list call has settled: the entries are
\* appended, the cursor kept, and either the next list call is made or the
\* loop ends
ListAllContinue(call, reqs, req) ==
    LET done == SubSeq(reqs, 1, Len(reqs) - 1) \o <<req>>
    IN  IF req.st = "failed"
        THEN Thrown(call, done, req.error)
        ELSE LET result == ListResult(req.response[1])
                 all == call.resolved.allEntries \o result.entries
             IN  IF GoesOn(call.args.while, result)
                 THEN [call EXCEPT
                          !.resolved = [token |-> result.continuationToken,
                                        allEntries |-> all],
                          !.reqs = done \o ListRequests(
                                       TurnOptions(call.args, result.continuationToken))]
                 ELSE Returned([call EXCEPT
                                   !.resolved = [token |-> result.continuationToken,
                                                 allEntries |-> all]],
                               done, all)

ListAllRespond(c, omits) ==
    /\ calls[c].op = "listAll"
    /\ Len(calls[c].reqs) <= MaxTurns
    /\ InFlight(c, Len(calls[c].reqs))
    /\ \E req \in {AnsweredList(calls[c].reqs[Len(calls[c].reqs)], omits)} :
           calls' = [calls EXCEPT ![c] =
                        ListAllContinue(calls[c], calls[c].reqs, req)]
    /\ UNCHANGED <<config, instance, basePath, objects, denied, issued>>

(***************************************************************************)
(* getSignedUrl                                                            *)
(***************************************************************************)
\* the printable ASCII characters, in the order of their codes: 32 to 95,
\* and 97 to 126 (the grave accent, 96, cannot be written in a string here)
AsciiFrom32 ==
    <<
      " ", "!", "\"", "#", "$", "%", "&", "'", "(", ")", "*", "+", ",", "-", ".", "/",
      "0", "1", "2", "3", "4", "5", "6", "7", "8", "9", ":", ";", "<", "=", ">", "?",
      "@", "A", "B", "C", "D", "E", "F", "G", "H", "I", "J", "K", "L", "M", "N", "O",
      "P", "Q", "R", "S", "T", "U", "V", "W", "X", "Y", "Z", "[", "\\", "]", "^", "_"
    >>

AsciiFrom97 ==
    <<
      "a", "b", "c", "d", "e", "f", "g", "h", "i", "j", "k", "l", "m", "n", "o", "p",
      "q", "r", "s", "t", "u", "v", "w", "x", "y", "z", "{", "|", "}", "~"
    >>

IndexIn(table, ch) == CHOOSE i \in 1..Len(table) : table[i] = ch

\* the code of a character: the printable ASCII ones, the control
\* characters a string can be written with, and the non-ASCII characters of
\* the names in use
CharCode(ch) ==
    IF \E i \in 1..Len(AsciiFrom32) : AsciiFrom32[i] = ch
    THEN 31 + IndexIn(AsciiFrom32, ch)
    ELSE IF \E i \in 1..Len(AsciiFrom97) : AsciiFrom97[i] = ch
    THEN 96 + IndexIn(AsciiFrom97, ch)
    ELSE CASE ch = "\t" -> 9
           [] ch = "\n" -> 10
           [] ch = "\f" -> 12
           [] ch = "\r" -> 13
           [] ch = "é" -> 233
           [] ch = "ñ" -> 241
           [] ch = "ü" -> 252
           [] ch = "€" -> 8364
           [] ch = "日" -> 26085

\* the bytes of the UTF-8 encoding of a code below 65536
Utf8(code) ==
    IF code < 128 THEN <<code>>
    ELSE IF code < 2048 THEN <<192 + (code \div 64), 128 + (code % 64)>>
    ELSE <<224 + (code \div 4096), 128 + ((code \div 64) % 64), 128 + (code % 64)>>

HexDigits ==
    <<"0", "1", "2", "3", "4", "5", "6", "7", "8", "9", "A", "B", "C", "D", "E", "F">>

\* a byte as a percent sign and two upper-case hexadecimal digits
PercentByte(byte) ==
    <<"%", HexDigits[(byte \div 16) + 1], HexDigits[(byte % 16) + 1]>>

\* the characters encodeURIComponent leaves as they are: letters, digits
\* and nine marks
IsUnreserved(ch) ==
    LET code == CharCode(ch)
    IN  \/ code \in 48..57
        \/ code \in 65..90
        \/ code \in 97..122
        \/ ch \in {"-", "_", ".", "!", "~", "*", "'", "(", ")"}

\* encodeURIComponent on one character: an unreserved character is kept,
\* any other becomes the percent-escaped bytes of its UTF-8 encoding
EncodeChar(ch) ==
    IF IsUnreserved(ch) THEN <<ch>>
    ELSE LET bytes == Utf8(CharCode(ch))
         IN  IF Len(bytes) = 1 THEN PercentByte(bytes[1])
             ELSE IF Len(bytes) = 2
             THEN PercentByte(bytes[1]) \o PercentByte(bytes[2])
             ELSE PercentByte(bytes[1]) \o PercentByte(bytes[2])
                      \o PercentByte(bytes[3])

RECURSIVE encodeURIComponent(_)
encodeURIComponent(str) ==
    IF Len(str) = 0 THEN <<>>
    ELSE EncodeChar(str[1]) \o encodeURIComponent(Tail(str))

\* the Content-Disposition value, None when options.disposition is not set
buildContentDisposition(options) ==
    IF ~IsGiven(options.disposition) THEN None
    ELSE IF options.disposition[1] = "attachment" /\ Truthy(options.fileName)
    THEN LET safe == encodeURIComponent(options.fileName[1])
         IN  Some(<<"attachment; filename=\"">> \o safe
                  \o <<"\"; filename*=UTF-8''">> \o safe)
    ELSE Some(<<options.disposition[1]>>)

\* the per-call override is not looked at
ExpiresIn_InstanceOnly(options) == instance.urlExpirationSeconds

\* options.expiresIn ?? this.urlExpirationSeconds
ExpiresIn(options) == OrElse(options.expiresIn, instance.urlExpirationSeconds)

\* what the presigner is asked to sign: the GetObject command and the expiry
SignedUrl(key, options) ==
    [Bucket |-> instance.bucketName, Key |-> key,
     ResponseContentDisposition |-> buildContentDisposition(options),
     expiresIn |-> ExpiresIn(options)]

\* getSignedUrl up to its return: the command and the expiry are handed to
\* the presigner and the call settles with the presigner's promise; nothing
\* is sent to the store
GetSignedUrl(c, key, options) ==
    /\ calls[c].status = "idle"
    /\ calls' = [calls EXCEPT ![c] =
                    Pending("getSignedUrl", [key |-> key, options |-> options],
                            <<>>, <<>>)]
    /\ UNCHANGED <<config, instance, basePath, objects, denied, issued>>

\* the call is waiting on the presigner
Presigning(c) == calls[c].op = "getSignedUrl" /\ calls[c].status = "pending"

\* the presigner's promise resolves: the call returns the URL signed for
\* what it was handed (the fields of the instance are readonly, so they are
\* what they were at the call)
Presigned(c) ==
    /\ Presigning(c)
    /\ calls' = [calls EXCEPT ![c] =
                    Returned(calls[c], <<>>,
                             SignedUrl(calls[c].args.key, calls[c].args.options))]
    /\ UNCHANGED <<config, instance, basePath, objects, denied, issued>>

\* an error of the presigner
PresignFailure(name, key) == [name |-> name, op |-> "presign", key |-> key]

\* the presigner's promise rejects: the call throws the presigner's error
PresignFails(c, name) ==
    /\ Presigning(c)
    /\ calls' = [calls EXCEPT ![c] =
                    Thrown(calls[c], <<>>,
                           PresignFailure(name, calls[c].args.key))]
    /\ UNCHANGED <<config, instance, basePath, objects, denied, issued>>

(***************************************************************************)
(* Inputs                                                                  *)
(***************************************************************************)
Calls == {"c1", "c2"}

MaxSmallN == 2

MaxN == 2500

kA == <<"a">>

kPhoto == <<"p", ".", "j">>

kB == <<"b", "/", "c">>

File(bytes, name) ==
    [buffer |-> bytes, originalName |-> name, mimeType |-> "image/jpeg",
     size |-> Len(bytes)]

OptionsWith(key, folder, fileName, unique, meta) ==
    [key |-> key, folder |-> folder, fileName |-> fileName,
     generateUniqueFileName |-> unique, metadata |-> meta]

Options(key, folder, fileName, unique) ==
    OptionsWith(key, folder, fileName, unique, None)

Meta1 == {<<"owner", "x">>}

Meta2 == {<<"owner", "y">>, <<"tag", "t">>}

FullConfig(region, bucketName, base, ttl) ==
    [region |-> region, bucketName |-> bucketName, basePath |-> base,
     urlExpirationSeconds |-> ttl]

Config(base) == FullConfig("us-east-1", "bucket", base, None)

\* --- the operations of Spec
Files == {File(<<1, 2>>, kPhoto), File(<<3>>, kPhoto)}

UploadOptions ==
    {OptionsWith(Some(kA), None, None, FALSE, Some(Meta1)),
     Options(None, Some(<<"d">>), None, TRUE),
     Options(None, None, None, FALSE)}

DirectKeys == {kA, kPhoto}

Modes == {None, Some("buffer"), Some("stream")}

KeyLists == UNION {[1..n -> DirectKeys] : n \in 0..MaxSmallN}

Configs == {Config(None)}

Stores == {<<>>, [k \in {kA} |-> Object(<<7>>, NoMetadata)]}

Policies ==
    {{},
     {<<"GetObject", kA, "AccessDenied">>},
     {<<"GetObject", kPhoto, "TimeoutError">>},
     {<<"DeleteObject", kA, "AccessDenied">>},
     {<<"PutObject", kA, "SlowDown">>}}

\* --- the uploads of SpecKeys
RawBasePaths ==
    {None, Some(<<>>), Some(<<"/">>), Some(<<"u", "p">>), Some(<<"u", "p", "/">>),
     Some(<<"/", "u", "p">>), Some(<<"/", "/", "u", "p">>)}

RawFolders ==
    {None, Some(<<>>), Some(<<"a", "v">>), Some(<<"a", "v", "/">>),
     Some(<<"/", "a", "v">>), Some(<<"a", "v", "/", "/">>)}

RawKeys == {None, Some(<<>>), Some(<<"k">>), Some(<<"c", "/", "f", ".", "j">>)}

RawFileNames == {None, Some(<<>>), Some(<<"r", ".", "j">>)}

OriginalNames == {kPhoto, <<"a", ".", "t", ".", "g">>, <<"M", "k">>}

KeyFiles == {File(<<1>>, name) : name \in OriginalNames}

KeyOptions ==
    {Options(key, folder, fileName, unique) :
        key \in RawKeys, folder \in RawFolders, fileName \in RawFileNames,
        unique \in BOOLEAN}

KeyConfigs == {Config(base) : base \in RawBasePaths}

KeyPolicies == {{}, {<<"PutObject", <<"k">>, "AccessDenied">>}}

\* --- the round trips of SpecRound
RoundPayloads == {<<>>, <<3>>, <<1, 2>>}

RoundFiles == {File(bytes, name) : bytes \in RoundPayloads, name \in OriginalNames}

RoundConfigs == {Config(None), Config(Some(<<"u", "p", "/">>))}

RoundStores == {<<>>, [k \in {<<"k">>} |-> Object(<<7>>, NoMetadata)]}

RoundPolicies == {{}, {<<"GetObject", <<"k">>, "AccessDenied">>}}

\* --- the copies and moves of SpecCopy
CopyKeys == {kA, kB}

CopyOptions(meta) == [storageClass |-> None, metadata |-> meta]

CopyMetadata == {None, Some(NoMetadata), Some(Meta1)}

CopyStores ==
    {<<>>,
     [k \in {kA} |-> Object(<<7>>, Meta2)],
     [k \in {kA, kB} |-> IF k = kA THEN Object(<<7>>, Meta2)
                                   ELSE Object(<<8>>, Meta1)]}

CopyPolicies ==
    {{},
     {<<"CopyObject", kB, "AccessDenied">>},
     {<<"DeleteObject", kA, "SlowDown">>}}

\* --- the listings of SpecList
kD1 == <<"d", "/", "a">>

kD2 == <<"d", "/", "b">>

kD3 == <<"d", "/", "c", "/", "p", ".", "j">>

kD4 == <<"d", "-", "1">>

ListStores ==
    {[k \in S |-> Object(<<7>>, NoMetadata)] :
        S \in {{}, {kA}, {kA, kD1}, {kD1, kD2, kA}, {kD1, kD2, kD3, kD4, kB}}}

ListFolders == {None, Some(<<"d">>), Some(<<"d", "/">>)}

ListPrefixes == {None, Some(<<"c">>)}

PageSizes == {None} \cup {Some(n) : n \in 1..3}

ListTokens == {None, Some(TokenAfter(kD1)), Some(TokenAfter(kD3))}

Whiles == {"hasMore", "token"}

ListPolicies == {{}, {<<"ListObjectsV2", <<"d">>, "AccessDenied">>}}

\* --- the configurations and signed URLs of SpecConfig
Regions == {"", "us-east-1"}

BucketNames == {"", "bucket"}

Expiries == {None, Some(0), Some(300)}

ConfigConfigs ==
    {FullConfig(region, bucketName, None, ttl) :
        region \in Regions, bucketName \in BucketNames, ttl \in Expiries}

SignedUrlOptions(expiresIn, disposition, fileName) ==
    [expiresIn |-> expiresIn, disposition |-> disposition, fileName |-> fileName]

SignedExpiries == {None, Some(0), Some(60)}

Dispositions == {None, Some("inline"), Some("attachment")}

SuggestedNames ==
    {None, Some(<<>>), Some(<<"a", " ", "b", ".", "j">>),
     Some(<<"r", "%", "\"", "+", "é", ".", "j">>)}

\* --- the failures of SpecErrors: each refuses one operation on one key
ErrorStores == {<<>>, [k \in {kA} |-> Object(<<7>>, Meta1)]}

ErrorPolicies ==
    {{<<"PutObject", kA, "SlowDown">>},
     {<<"GetObject", kA, "AccessDenied">>},
     {<<"GetObject", kPhoto, "TimeoutError">>},
     {<<"DeleteObject", kA, "AccessDenied">>},
     {<<"CopyObject", kB, "InternalError">>},
     {<<"ListObjectsV2", kA, "AccessDenied">>}}

ErrorFolders == {None, Some(kA)}

\* --- the body streams of SpecStream
StreamBodies == {<<>>, <<7>>, <<7, 8>>, <<7, 8, 9>>}

StreamStores ==
    {<<>>} \cup {[k \in {kA} |-> Object(bytes, Meta1)] : bytes \in StreamBodies}

\* the names of the errors a body stream may emit
StreamErrorNames == {"ECONNRESET", "NoSuchKey"}

StreamFailure(name, key) == [name |-> name, op |-> "stream", key |-> key]

\* --- the key lists of SpecChunks: n keys, cycling through three keys
ChunkKey(i) == IF i % 3 = 0 THEN kA ELSE IF i % 3 = 1 THEN kPhoto ELSE kB

ChunkKeyList(n) == [i \in 1..n |-> ChunkKey(i)]

ChunkLengths == (0..(MaxSmallN + 1)) \cup {ChunkSize, ChunkSize + 1, MaxN}

ChunkPolicies == {{}, {<<"DeleteObject", kB, "AccessDenied">>}}

ChunkStores == {[k \in {kA, kPhoto, kB} |-> Object(<<7>>, NoMetadata)]}

(***************************************************************************)
(* Specifications                                                          *)
(***************************************************************************)
InitWith(configs, stores, policies) ==
    /\ config \in configs
    /\ instance = Construct(config)
    /\ basePath = NormalBasePath(config)
    /\ objects \in stores
    /\ denied \in policies
    /\ issued = {}
    /\ calls = [c \in Calls |-> IdleCall]

Init == InitWith(Configs, Stores, Policies)

DoUpload == \E c \in Calls, file \in Files, options \in UploadOptions :
                Upload(c, file, options)

DoUploadRespond == \E c \in Calls : UploadRespond(c)

DoDownload == \E c \in Calls, key \in DirectKeys, mode \in Modes :
                  Download(c, key, mode)

DoDownloadRespond == \E c \in Calls : DownloadRespond(c)

DoStreamData == \E c \in Calls : StreamData(c)

DoStreamEnd == \E c \in Calls : StreamEnd(c)

DoExists == \E c \in Calls, key \in DirectKeys : Exists(c, key)

DoExistsRespond == \E c \in Calls : ExistsRespond(c)

DoDelete == \E c \in Calls, key \in DirectKeys : Delete(c, key)

DoDeleteRespond == \E c \in Calls : DeleteRespond(c)

DoDeleteMany == \E c \in Calls, keys \in KeyLists : DeleteMany(c, keys)

DoDeleteManyRespond ==
    \E c \in Calls : \E i \in 1..Len(calls[c].reqs) : DeleteManyRespond(c, i)

Next ==
    \/ DoUpload
    \/ DoUploadRespond
    \/ DoDownload
    \/ DoDownloadRespond
    \/ DoStreamData
    \/ DoStreamEnd
    \/ DoExists
    \/ DoExistsRespond
    \/ DoDelete
    \/ DoDeleteRespond
    \/ DoDeleteMany
    \/ DoDeleteManyRespond

Spec == Init /\ [][Next]_vars

\* SpecKeys: one upload, over every combination of base path and options
InitKeys == InitWith(KeyConfigs, {<<>>}, KeyPolicies)

KeysUpload == \E file \in KeyFiles, options \in KeyOptions :
                  Upload("c1", file, options)

KeysUploadRespond == UploadRespond("c1")

NextKeys == KeysUpload \/ KeysUploadRespond

SpecKeys == InitKeys /\ [][NextKeys]_vars

\* SpecRound: one upload over every combination of base path and options,
\* then, once it has returned, one download of the key it returned
InitRound == InitWith(RoundConfigs, RoundStores, RoundPolicies)

RoundUpload == \E file \in RoundFiles, options \in KeyOptions :
                   Upload("c1", file, options)

RoundUploadRespond == UploadRespond("c1")

RoundDownload ==
    /\ calls["c1"].status = "returned"
    /\ \E mode \in Modes : Download("c2", calls["c1"].result.key, mode)

RoundDownloadRespond == DownloadRespond("c2")

NextRound ==
    \/ RoundUpload
    \/ RoundUploadRespond
    \/ RoundDownload
    \/ RoundDownloadRespond
    \/ StreamData("c2")
    \/ StreamEnd("c2")

SpecRound == InitRound /\ [][NextRound]_vars

\* SpecCopy: one copy or one moveObject by c1, while c2 may read any key
InitCopy == InitWith(Configs, CopyStores, CopyPolicies)

CopyCopy == \E sourceKey \in CopyKeys, destinationKey \in CopyKeys,
               meta \in CopyMetadata :
                Copy("c1", sourceKey, destinationKey, CopyOptions(meta))

CopyCopyRespond == CopyRespond("c1")

CopyMove == \E sourceKey \in CopyKeys, destKey \in CopyKeys :
                MoveObject("c1", sourceKey, destKey)

CopyMoveCopyRespond == MoveCopyRespond("c1")

CopyMoveDelete == MoveDelete("c1")

CopyMoveStop == MoveStop("c1")

CopyMoveDeleteRespond == MoveDeleteRespond("c1")

CopyRead == \E key \in CopyKeys : Download("c2", key, Some("buffer"))

CopyReadRespond == DownloadRespond("c2")

NextCopy ==
    \/ CopyCopy
    \/ CopyCopyRespond
    \/ CopyMove
    \/ CopyMoveCopyRespond
    \/ CopyMoveDelete
    \/ CopyMoveStop
    \/ CopyMoveDeleteRespond
    \/ CopyRead
    \/ CopyReadRespond
    \/ StreamData("c2")
    \/ StreamEnd("c2")

SpecCopy == InitCopy /\ [][NextCopy]_vars

\* SpecList: one list call by c1 or one pagination loop by c2, over a
\* store nothing writes to
InitList == InitWith(Configs, ListStores, ListPolicies)

ListList ==
    /\ calls["c2"].status = "idle"
    /\ \E folder \in ListFolders, prefix \in ListPrefixes,
          maxResults \in PageSizes, token \in ListTokens :
           List("c1", ListOptions(folder, prefix, maxResults, token))

ListListRespond == \E omits \in BOOLEAN : ListRespond("c1", omits)

ListListAll ==
    /\ calls["c1"].status = "idle"
    /\ \E folder \in ListFolders, maxResults \in PageSizes, while \in Whiles :
           ListAll("c2", folder, maxResults, while)

ListListAllRespond == \E omits \in BOOLEAN : ListAllRespond("c2", omits)

NextList ==
    \/ ListList
    \/ ListListRespond
    \/ ListListAll
    \/ ListListAllRespond

SpecList == InitList /\ [][NextList]_vars

\* the store answers every request and the continuation of the call runs
SpecListFair ==
    SpecList /\ WF_vars(ListListRespond) /\ WF_vars(ListListAllRespond)

\* SpecConfig: a client is constructed from a configuration that may lack
\* its region or its bucket name; a client that exists signs URLs and
\* probes keys
InitConfig == InitWith(ConfigConfigs, Stores, {{}})

Constructed == instance.status = "constructed"

ConfigGetSignedUrl ==
    /\ Constructed
    /\ \E c \in Calls, key \in DirectKeys, expiresIn \in SignedExpiries,
          disposition \in Dispositions, fileName \in SuggestedNames :
           GetSignedUrl(c, key, SignedUrlOptions(expiresIn, disposition, fileName))

PresignErrorNames == {"CredentialsProviderError"}

ConfigPresigned == \E c \in Calls : Presigned(c)

ConfigPresignFails == \E c \in Calls, name \in PresignErrorNames : PresignFails(c, name)

ConfigExists ==
    /\ Constructed
    /\ \E c \in Calls, key \in DirectKeys : Exists(c, key)

ConfigExistsRespond == \E c \in Calls : ExistsRespond(c)

NextConfig ==
    \/ ConfigGetSignedUrl
    \/ ConfigPresigned
    \/ ConfigPresignFails
    \/ ConfigExists
    \/ ConfigExistsRespond

SpecConfig == InitConfig /\ [][NextConfig]_vars

\* SpecErrors: one call of any single-request operation, against a store
\* that refuses one kind of request
InitErrors == InitWith(Configs, ErrorStores, ErrorPolicies)

ErrorsUpload == \E file \in Files, options \in UploadOptions :
                    Upload("c1", file, options)

ErrorsDownload == \E key \in DirectKeys, mode \in Modes :
                      Download("c1", key, mode)

ErrorsExists == \E key \in DirectKeys : Exists("c1", key)

ErrorsDelete == \E key \in DirectKeys : Delete("c1", key)

ErrorsCopy == \E sourceKey \in CopyKeys, destinationKey \in CopyKeys,
                 meta \in CopyMetadata :
                  Copy("c1", sourceKey, destinationKey, CopyOptions(meta))

ErrorsList == \E folder \in ErrorFolders, maxResults \in PageSizes :
                  List("c1", ListOptions(folder, None, maxResults, None))

NextErrors ==
    \/ ErrorsUpload
    \/ UploadRespond("c1")
    \/ ErrorsDownload
    \/ DownloadRespond("c1")
    \/ StreamData("c1")
    \/ StreamEnd("c1")
    \/ ErrorsExists
    \/ ExistsRespond("c1")
    \/ ErrorsDelete
    \/ DeleteRespond("c1")
    \/ ErrorsCopy
    \/ CopyRespond("c1")
    \/ ErrorsList
    \/ \E omits \in BOOLEAN : ListRespond("c1", omits)

SpecErrors == InitErrors /\ [][NextErrors]_vars

\* SpecStream: one download by c1 whose body stream may fail at any point
\* before its end, while c2 may delete the object
InitStream == InitWith(Configs, StreamStores, {{}})

StreamDownload == \E mode \in Modes : Download("c1", kA, mode)

StreamFails == \E name \in StreamErrorNames :
                   StreamError("c1", StreamFailure(name, calls["c1"].args.key))

StreamDelete == Delete("c2", kA)

NextStream ==
    \/ StreamDownload
    \/ DownloadRespond("c1")
    \/ StreamData("c1")
    \/ StreamEnd("c1")
    \/ StreamFails
    \/ StreamDelete
    \/ DeleteRespond("c2")

SpecStream == InitStream /\ [][NextStream]_vars

\* SpecChunks: one deleteMany over short and long key lists, the store
\* answering the deletes in the order they were sent
InitChunks == InitWith(Configs, ChunkStores, ChunkPolicies)

ChunksDeleteMany == \E n \in ChunkLengths : DeleteMany("c1", ChunkKeyList(n))

Answers(reqs) == Cardinality({i \in 1..Len(reqs) : reqs[i].st # "inflight"})

ChunksRespond == DeleteManyRespond("c1", Answers(calls["c1"].reqs) + 1)

NextChunks == ChunksDeleteMany \/ ChunksRespond

SpecChunks == InitChunks /\ [][NextChunks]_vars

\* SpecIfAbsent: two callers run uploadIfAbsent, each with its own file,
\* on keys that may be the same, the store holding an object at one of the
\* keys or none
IfAbsentPolicies == {{}, {<<"GetObject", kPhoto, "AccessDenied">>}}

InitIfAbsent == InitWith(Configs, Stores, IfAbsentPolicies)

IfAbsentFile(c) == IF c = "c1" THEN File(<<1, 2>>, kPhoto) ELSE File(<<3>>, kPhoto)

IfAbsentStart ==
    \E c \in Calls, key \in DirectKeys : UploadIfAbsent(c, key, IfAbsentFile(c))

IfAbsentProbed == \E c \in Calls : IfAbsentProbeRespond(c)

IfAbsentUploads == \E c \in Calls : IfAbsentUpload(c)

IfAbsentUploaded == \E c \in Calls : IfAbsentUploadRespond(c)

NextIfAbsent ==
    \/ IfAbsentStart
    \/ IfAbsentProbed
    \/ IfAbsentUploads
    \/ IfAbsentUploaded

SpecIfAbsent == InitIfAbsent /\ [][NextIfAbsent]_vars

\* SpecPresence: one caller probes a key with exists, another downloads a
\* key; the store answers each get with an error, with the object, or with
\* a success that carries no body; nothing writes to the store
InitPresence == InitWith(Configs, Stores, Policies)

PresenceExists == \E key \in DirectKeys : Exists("c1", key)

PresenceDownload == \E key \in DirectKeys, mode \in Modes : Download("c2", key, mode)

PresenceExistsRespond == \E bodyless \in BOOLEAN : ExistsRespondWith("c1", bodyless)

PresenceDownloadRespond ==
    \E bodyless \in BOOLEAN : DownloadRespondWith("c2", bodyless)

NextPresence ==
    \/ PresenceExists
    \/ PresenceDownload
    \/ PresenceExistsRespond
    \/ PresenceDownloadRespond
    \/ StreamData("c2")
    \/ StreamEnd("c2")

SpecPresence == InitPresence /\ [][NextPresence]_vars

(***************************************************************************)
(* Properties                                                              *)
(***************************************************************************)
CallsOf(op) == {c \in Calls : calls[c].op = op}

Done(c) == calls[c].status \in {"returned", "thrown"}

\* the key of call c's upload went to the store and into the result as want
UploadKeyIs(c, want) ==
    /\ Len(calls[c].reqs) = 1
    /\ calls[c].reqs[1].op = "PutObject"
    /\ calls[c].reqs[1].key = want
    /\ calls[c].status = "returned" => calls[c].result.key = want

\* C1 as stated: whenever options.key is given, whatever string it is, the
\* key sent to the store and the key of the Upload Result are options.key.
C1_AnyGivenKeyVerbatim ==
    \A c \in CallsOf("upload") :
        IsGiven(calls[c].args.options.key)
            => UploadKeyIs(c, calls[c].args.options.key[1])

\* C1 amended: whenever options.key is a non-empty string, the key sent to
\* the store and the key of the Upload Result are options.key verbatim,
\* whatever folder, fileName, generateUniqueFileName and the base path are.
C1_NonEmptyKeyVerbatim ==
    \A c \in CallsOf("upload") :
        Truthy(calls[c].args.options.key)
            => UploadKeyIs(c, calls[c].args.options.key[1])

\* an upload with an explicit key returned while base path, folder and
\* fileName were all set and a unique name was requested
C1_Witness ==
    \E c \in CallsOf("upload") :
        /\ calls[c].status = "returned"
        /\ Truthy(calls[c].args.options.key)
        /\ Truthy(calls[c].args.options.folder)
        /\ Truthy(calls[c].args.options.fileName)
        /\ calls[c].args.options.generateUniqueFileName
        /\ Len(basePath) > 0
        /\ calls[c].result.key = calls[c].args.options.key[1]
        /\ calls[c].result.key \in DOMAIN objects

\* C2 as stated: without options.key and with options.fileName, the stored
\* name is options.fileName and the key is the Key Builder's key for it,
\* also when generateUniqueFileName is true.
C2_FileNameOutranksUnique ==
    \A c \in CallsOf("upload") :
        LET options == calls[c].args.options
        IN  (~IsGiven(options.key) /\ IsGiven(options.fileName))
                => /\ calls[c].resolved.storedName = options.fileName[1]
                   /\ UploadKeyIs(c, buildFullKey(options.fileName[1], options.folder))

HasDoubledSlash(s) == \E i \in 1..(Len(s) - 1) : s[i] = "/" /\ s[i + 1] = "/"

CleanKey(s) ==
    /\ ~HasDoubledSlash(s)
    /\ Len(s) > 0 => s[1] # "/" /\ s[Len(s)] # "/"

\* C3 as stated: for non-empty base path, folder and filename the key built
\* without an explicit key has no doubled, leading or trailing slash.
C3_NoStraySlash ==
    \A c \in CallsOf("upload") :
        LET options == calls[c].args.options
        IN  (/\ ~Truthy(options.key)
             /\ Truthy(config.basePath)
             /\ Truthy(options.folder)
             /\ Len(calls[c].resolved.storedName) > 0)
                => CleanKey(calls[c].reqs[1].key)

\* two uploads that both draw a generated name
UniquePair(c, d) ==
    /\ c # d
    /\ calls[c].op = "upload" /\ DrawsUuid(calls[c].args.options)
    /\ calls[d].op = "upload" /\ DrawsUuid(calls[d].args.options)

\* the object at the key of upload c holds the bytes c uploaded
HoldsOwnBytes(c) ==
    /\ calls[c].result.key \in DOMAIN objects
    /\ objects[calls[c].result.key].body = calls[c].args.file.buffer

\* C4: two uploads with generateUniqueFileName and no explicit key, in any
\* interleaving, resolve to different keys, and once both have returned each
\* object still holds the bytes of its own upload.
C4_UniqueUploadsNeverCollide ==
    \A c, d \in Calls :
        UniquePair(c, d)
            => /\ calls[c].reqs[1].key # calls[d].reqs[1].key
               /\ (calls[c].status = "returned" /\ calls[d].status = "returned")
                      => HoldsOwnBytes(c) /\ HoldsOwnBytes(d)

\* two unique-name uploads of different bytes under one original name into
\* one folder have both returned
C4_Witness ==
    \E c, d \in Calls :
        /\ UniquePair(c, d)
        /\ calls[c].status = "returned" /\ calls[d].status = "returned"
        /\ calls[c].args.options.folder = calls[d].args.options.folder
        /\ calls[c].args.file.originalName = calls[d].args.file.originalName
        /\ calls[c].args.file.buffer # calls[d].args.file.buffer

IsSuffixOf(e, s) ==
    Len(e) <= Len(s) /\ e = SubSeq(s, Len(s) - Len(e) + 1, Len(s))

\* e is originalName's text from its last dot on, or empty without a dot
IsLastExtension(e, originalName) ==
    /\ IsSuffixOf(e, originalName)
    /\ IF Includes(originalName, ".")
       THEN Len(e) > 0 /\ e[1] = "." /\ \A i \in 2..Len(e) : e[i] # "."
       ELSE e = <<>>

\* C5: a generated stored name is an issued identifier followed by the
\* original name's text from its last dot on (nothing when it has no dot).
C5_UniqueNameKeepsLastExtension ==
    \A c \in CallsOf("upload") :
        DrawsUuid(calls[c].args.options)
            => \E uuid \in issued :
                  \E n \in 0..Len(calls[c].args.file.originalName) :
                      LET name == calls[c].args.file.originalName
                          e == SubSeq(name, Len(name) - n + 1, Len(name))
                      IN  /\ IsLastExtension(e, name)
                          /\ calls[c].resolved.storedName = uuid \o e

\* a generated name for an original name with two dots has been stored
C5_Witness ==
    \E c \in CallsOf("upload") :
        /\ DrawsUuid(calls[c].args.options)
        /\ calls[c].status = "returned"
        /\ calls[c].args.file.originalName = <<"a", ".", "t", ".", "g">>
        /\ \E uuid \in issued : calls[c].result.storedName = uuid \o <<".", "g">>

\* C6: a download, in either mode, returns the absent value when the store
\* answers that the key does not exist, and fails with the store's own error
\* on every other failure.
C6_DownloadAbsentOrSameError ==
    \A c \in CallsOf("download") :
        (Done(c) /\ calls[c].reqs[1].st = "failed")
            => IF calls[c].reqs[1].error.name = "NoSuchKey"
               THEN calls[c].status = "returned" /\ calls[c].result = Null
               ELSE calls[c].status = "thrown"
                    /\ calls[c].error = calls[c].reqs[1].error

\* a buffer-mode download of a missing key returned the absent value and
\* another download failed with the error of a store that refused it
C6_Witness ==
    \E c, d \in CallsOf("download") :
        /\ calls[c].args.mode = Some("buffer")
        /\ calls[c].reqs[1].error.name = "NoSuchKey"
        /\ calls[c].status = "returned" /\ calls[c].result = Null
        /\ calls[d].status = "thrown"
        /\ calls[d].error.name \in {"AccessDenied", "TimeoutError"}

\* call c completes in this step
Completes(c) == calls[c].status = "pending" /\ calls'[c].status # "pending"

\* C7: exists returns true exactly when the store serves an object at the
\* key, false exactly when the store answers not-found, and fails with the
\* store's error on every other failure.
C7_ExistsThreeWay ==
    [][\A c \in Calls :
          (calls[c].op = "exists" /\ Completes(c))
              => LET key == calls[c].args.key
                     present == key \in DOMAIN objects
                     refused == Refused("GetObject", key)
                 IN  /\ (calls'[c].status = "returned"
                            /\ calls'[c].result = [value |-> TRUE])
                           <=> (present /\ ~refused)
                     /\ (calls'[c].status = "returned"
                            /\ calls'[c].result = [value |-> FALSE])
                           <=> (~present /\ ~refused)
                     /\ calls'[c].status = "thrown" <=> refused
                     /\ refused => calls'[c].error.name = RefusalName("GetObject", key)
      ]_vars

\* one probe found its object and another found none
C7_Witness ==
    \E c, d \in CallsOf("exists") :
        /\ calls[c].status = "returned" /\ calls[c].result = [value |-> TRUE]
        /\ calls[d].status = "returned" /\ calls[d].result = [value |-> FALSE]

\* C8: delete sends one delete request and no probe; unless the store
\* refuses it, it returns whether or not the key held an object, and leaves
\* the store without that key and otherwise as it was, so that a repeated
\* delete changes nothing.
C8_DeleteIdempotent ==
    [][\A c \in Calls :
          (calls[c].op = "delete" /\ Completes(c))
              => LET key == calls[c].args.key
                 IN  /\ Len(calls'[c].reqs) = 1
                     /\ calls'[c].reqs[1].op = "DeleteObject"
                     /\ calls'[c].reqs[1].key = key
                     /\ ~Refused("DeleteObject", key)
                           => /\ calls'[c].status = "returned"
                              /\ objects' = [k \in DOMAIN objects \ {key} |-> objects[k]]
                     /\ (~Refused("DeleteObject", key) /\ key \notin DOMAIN objects)
                           => objects' = objects
      ]_vars

\* two deletes of one key have both returned
C8_Witness ==
    \E c, d \in CallsOf("delete") :
        /\ c # d
        /\ calls[c].args.key = calls[d].args.key
        /\ calls[c].status = "returned" /\ calls[d].status = "returned"
        /\ calls[c].args.key \notin DOMAIN objects

\* C9: deleteMany sends one delete request per entry of its key list, N in
\* all and none for an empty list, whatever the chunk boundaries, and has
\* returned once every delete has succeeded.
C9_DeleteManyOncePerKey ==
    \A c \in CallsOf("deleteMany") :
        LET keys == calls[c].args.keys
            reqs == calls[c].reqs
        IN  /\ Len(reqs) = Len(keys)
            /\ \A i \in 1..Len(keys) :
                   reqs[i].op = "DeleteObject" /\ reqs[i].key = keys[i]
            /\ (\A i \in 1..Len(reqs) : reqs[i].st = "ok")
                   => calls[c].status = "returned"

\* a deleteMany over the longest list has sent its deletes, in three chunks
C9_Witness ==
    \E c \in CallsOf("deleteMany") :
        /\ Len(calls[c].args.keys) = MaxN
        /\ Len(calls[c].reqs) = MaxN
        /\ calls[c].reqs[MaxN].chunk > 2
        /\ calls[c].reqs[MaxN].key = calls[c].args.keys[MaxN]

\* C10 as stated: when deleteMany has completed, with success or with
\* failure, none of the deletes it sent is still in flight.
C10_CompletesAfterAllSettle ==
    \A c \in CallsOf("deleteMany") :
        Done(c) => \A i \in 1..Len(calls[c].reqs) : calls[c].reqs[i].st # "inflight"

\* C11: once one delete sent by deleteMany has failed, the call has failed
\* with the error of a failed delete and holds no result, whatever became
\* of the other deletes.
C11_DeleteManyFailsOnAnyFailure ==
    \A c \in CallsOf("deleteMany") :
        (\E i \in 1..Len(calls[c].reqs) : calls[c].reqs[i].st = "failed")
            => /\ calls[c].status = "thrown"
               /\ calls[c].result = NoResult
               /\ \E i \in 1..Len(calls[c].reqs) :
                      /\ calls[c].reqs[i].st = "failed"
                      /\ calls[c].error = calls[c].reqs[i].error

\* a deleteMany failed although another of its deletes succeeded
C11_Witness ==
    \E c \in CallsOf("deleteMany") :
        /\ calls[c].status = "thrown"
        /\ \E i, j \in 1..Len(calls[c].reqs) :
               calls[c].reqs[i].st = "failed" /\ calls[c].reqs[j].st = "ok"

ListedKeys(c) == {calls[c].args.keys[i] : i \in 1..Len(calls[c].args.keys)}

\* no upload is under way or done: nothing writes to the store
NoWriter == \A c \in Calls : calls[c].op # "upload"

\* C12: in whatever order the deletes of a deleteMany take effect, a step
\* of the call leaves every object at an unlisted key as it was, and once
\* the call has returned no listed key holds an object (while nothing else
\* writes to the store).
C12_DeleteManyOrderIndependent ==
    [][\A c \in Calls :
          /\ (calls[c].op = "deleteMany" /\ calls'[c].reqs # calls[c].reqs)
                => /\ DOMAIN objects' \subseteq DOMAIN objects
                   /\ \A k \in DOMAIN objects \ ListedKeys(c) :
                          k \in DOMAIN objects' /\ objects'[k] = objects[k]
          /\ (calls'[c].op = "deleteMany" /\ calls'[c].status = "returned"
                 /\ NoWriter')
                => \A k \in {calls'[c].args.keys[i] :
                                i \in 1..Len(calls'[c].args.keys)} :
                       k \notin DOMAIN objects'
      ]_vars

\* a deleteMany over two different keys has returned and neither key holds
\* an object
C12_Witness ==
    \E c \in CallsOf("deleteMany") :
        /\ calls[c].status = "returned"
        /\ Len(calls[c].args.keys) = 2
        /\ calls[c].args.keys[1] # calls[c].args.keys[2]
        /\ ListedKeys(c) \cap DOMAIN objects = {}

\* C17: a download in buffer mode of the key a successful upload returned,
\* with nothing written to that key in between, returns a buffer equal byte
\* for byte to the uploaded payload, never the absent value; it fails only
\* when the store refuses the read.
C17_RoundTrip ==
    (/\ calls["c1"].op = "upload" /\ calls["c1"].status = "returned"
     /\ calls["c2"].op = "download" /\ Done("c2")
     /\ calls["c2"].args.key = calls["c1"].result.key
     /\ calls["c2"].args.mode = Some("buffer"))
        => IF Refused("GetObject", calls["c1"].result.key)
           THEN calls["c2"].status = "thrown"
           ELSE /\ calls["c2"].status = "returned"
                /\ calls["c2"].result.absent = FALSE
                /\ calls["c2"].result.buffer = calls["c1"].args.file.buffer

\* a two-byte payload uploaded under a generated name came back whole
C17_Witness ==
    /\ calls["c1"].op = "upload" /\ calls["c1"].status = "returned"
    /\ calls["c1"].args.options.generateUniqueFileName
    /\ Len(calls["c1"].args.file.buffer) = 2
    /\ calls["c2"].op = "download" /\ calls["c2"].status = "returned"
    /\ calls["c2"].args.mode = Some("buffer")
    /\ calls["c2"].result.absent = FALSE
    /\ calls["c2"].result.buffer = calls["c1"].args.file.buffer

\* C20: an upload sends exactly one request, a put at the resolved key, and
\* the key of its result is the key of that put; the step in which it
\* succeeds sets the object at that key to the payload and leaves every
\* other key as it was, and the step in which it fails changes no object.
C20_UploadOnePutOneObject ==
    [][\A c \in Calls : calls'[c].op = "upload" =>
          /\ Len(calls'[c].reqs) = 1
          /\ calls'[c].reqs[1].op = "PutObject"
          /\ calls'[c].reqs[1].key = calls'[c].resolved.key
          /\ calls'[c].status = "returned"
                => calls'[c].result.key = calls'[c].reqs[1].key
          /\ (calls[c].status = "pending" /\ calls'[c].status = "returned")
                => LET key == calls'[c].result.key
                   IN  /\ DOMAIN objects' = DOMAIN objects \cup {key}
                       /\ objects'[key].body = calls[c].args.file.buffer
                       /\ \A k \in DOMAIN objects \ {key} :
                              objects'[k] = objects[k]
          /\ (calls[c].status = "pending" /\ calls'[c].status = "thrown")
                => objects' = objects
      ]_vars

\* an upload into a folder under a generated name has created its object
\* beside an object that was already stored
C20_Witness ==
    \E c \in CallsOf("upload") :
        /\ calls[c].status = "returned"
        /\ calls[c].result.key # calls[c].result.storedName
        /\ calls[c].result.key \in DOMAIN objects
        /\ kA \in DOMAIN objects
        /\ calls[c].result.key # kA

\* the step in which the copy of call c succeeds
CopySucceeds(c) ==
    /\ calls[c].op = "copy"
    /\ calls[c].status = "pending"
    /\ calls'[c].status = "returned"

\* the destination's metadata after a successful copy: the supplied map
\* when one is supplied, empty or not, and otherwise the source's metadata
\* as it was before the copy
CopyMetadataRule(c) ==
    LET a == calls[c].args
    IN  /\ a.destinationKey \in DOMAIN objects'
        /\ objects'[a.destinationKey].metadata =
              IF IsGiven(a.options.metadata)
              THEN a.options.metadata[1]
              ELSE objects[a.sourceKey].metadata
        /\ objects'[a.destinationKey].body = objects[a.sourceKey].body

\* C15 as stated: the metadata rule, and the source object is the same
\* after every successful copy.
C15_CopySourceAlwaysUnchanged ==
    [][\A c \in Calls : CopySucceeds(c) =>
          /\ CopyMetadataRule(c)
          /\ objects'[calls[c].args.sourceKey] = objects[calls[c].args.sourceKey]
      ]_vars

\* C15: after a successful copy the destination's metadata is exactly the
\* supplied map when one is supplied (an empty one included) and the
\* source's earlier metadata when none is; the source object is unchanged
\* whenever the destination is another key than the source.
C15_CopyMetadata ==
    [][\A c \in Calls : CopySucceeds(c) =>
          /\ CopyMetadataRule(c)
          /\ calls[c].args.sourceKey # calls[c].args.destinationKey
                => objects'[calls[c].args.sourceKey] =
                       objects[calls[c].args.sourceKey]
      ]_vars

\* a copy with an empty metadata map has replaced the metadata of an
\* existing destination, the source keeping its own
C15_Witness ==
    \E c \in CallsOf("copy") :
        /\ calls[c].status = "returned"
        /\ calls[c].args.options.metadata = Some(NoMetadata)
        /\ calls[c].args.sourceKey = kA
        /\ calls[c].args.destinationKey = kB
        /\ objects[kB] = Object(<<7>>, NoMetadata)
        /\ objects[kA] = Object(<<7>>, Meta2)

\* the copy of moveObject call c was served
MoveCopied(c) ==
    /\ calls[c].op = "moveObject"
    /\ Len(calls[c].reqs) >= 1
    /\ calls[c].reqs[1].st = "ok"

\* moveObject call c ended after a served copy without a served delete: it
\* stopped between the two steps, or its delete failed
MoveBrokeOff(c) ==
    /\ MoveCopied(c)
    /\ \/ calls[c].status = "stopped"
       \/ calls[c].status = "thrown"

\* C16: moveObject sends the delete of the source only after its copy was
\* served; a failed copy ends it with no delete sent; and when it stops
\* between the two steps or its delete fails, the source and the
\* destination both hold the object, the copy not being undone.
C16_MoveNotAtomic ==
    \A c \in CallsOf("moveObject") :
        LET r == calls[c].reqs
            a == calls[c].args
        IN  /\ r[1].op = "CopyObject"
            /\ Len(r) <= 2
            /\ Len(r) = 2 => /\ r[1].st = "ok"
                             /\ r[2].op = "DeleteObject"
                             /\ r[2].key = a.sourceKey
            /\ r[1].st = "failed" => Len(r) = 1 /\ calls[c].status = "thrown"
            /\ MoveBrokeOff(c) =>
                  /\ a.sourceKey \in DOMAIN objects
                  /\ a.destKey \in DOMAIN objects
                  /\ objects[a.destKey] = objects[a.sourceKey]

\* a moveObject whose delete the store refused: the object is at both keys
C16_Witness ==
    \E c \in CallsOf("moveObject") :
        /\ calls[c].status = "thrown"
        /\ Len(calls[c].reqs) = 2
        /\ calls[c].reqs[2].st = "failed"
        /\ calls[c].args.sourceKey = kA
        /\ calls[c].args.destKey = kB
        /\ objects[kB] = objects[kA]

\* the keys of the store under the prefix a pagination loop asks for
UnderPrefix(c) ==
    {k \in DOMAIN objects :
        StartsWith(k, buildPrefix(calls[c].args.folder, None))}

\* the entries name every key of S once, and nothing else
NamesEachOnce(entries, S) ==
    /\ {entries[i].key : i \in 1..Len(entries)} = S
    /\ Len(entries) = Cardinality(S)

\* C13: over an unchanging store, a pagination loop (list called again and
\* again with the same folder, each call seeded with the cursor of the
\* previous result, until hasMore is false) that no call of fails comes to
\* an end, and the entries it has gathered then name every object under the
\* prefix exactly once, whatever the page size.
C13_PaginationComplete ==
    /\ [](\A c \in CallsOf("listAll") :
             calls[c].status = "returned"
                => NamesEachOnce(calls[c].result, UnderPrefix(c)))
    /\ \A c \in Calls :
          (calls[c].op = "listAll") ~> (calls[c].status # "pending")

\* a loop with pages of one entry has ended after four turns with the four
\* objects under its prefix
C13_Witness ==
    \E c \in CallsOf("listAll") :
        /\ calls[c].status = "returned"
        /\ calls[c].args.while = "hasMore"
        /\ calls[c].args.maxResults = Some(1)
        /\ Len(calls[c].reqs) = 4
        /\ Len(calls[c].result) = 4
        /\ calls[c].result[4].key = kD3

\* the result of a settled list request carries the store's next cursor
\* and truncated flag as they came, false standing in for a missing flag
CarriesStoreCursor(result, response) ==
    /\ result.continuationToken = response.NextContinuationToken
    /\ result.hasMore = IF IsGiven(response.IsTruncated)
                        THEN response.IsTruncated[1] ELSE FALSE

\* C14: list sends the store the continuation token its caller gave,
\* unchanged, and returns the store's next token and truncated flag as they
\* came (hasMore false when the store gives no flag); the client keeps no
\* cursor: its instance state never changes, and each turn of a pagination
\* loop sends exactly the token the previous result carried.
C14_CursorThreadedUnmodified ==
    /\ instance = Construct(config)
    /\ \A c \in CallsOf("list") :
          /\ Len(calls[c].reqs) = 1
          /\ calls[c].reqs[1].token = calls[c].args.options.continuationToken
          /\ calls[c].status = "returned"
                => CarriesStoreCursor(calls[c].result,
                                      calls[c].reqs[1].response[1])
    /\ \A c \in CallsOf("listAll") :
          /\ calls[c].reqs[1].token = None
          /\ \A i \in 2..Len(calls[c].reqs) :
                /\ calls[c].reqs[i - 1].st = "ok"
                /\ calls[c].reqs[i].token =
                      calls[c].reqs[i - 1].response[1].NextContinuationToken

\* a list call given a cursor has returned the page after it, the store
\* having left out the truncated flag
C14_Witness ==
    \E c \in CallsOf("list") :
        /\ calls[c].status = "returned"
        /\ calls[c].args.options.continuationToken = Some(TokenAfter(kD1))
        /\ calls[c].reqs[1].token = Some(TokenAfter(kD1))
        /\ calls[c].reqs[1].response[1].IsTruncated = None
        /\ calls[c].result.hasMore = FALSE
        /\ Len(calls[c].result.entries) > 0

\* C18: a client exists exactly when its configuration has a region and a
\* bucket name; when either is missing the constructor has thrown a
\* configuration error, no store client was created and no request is ever
\* sent.
C18_ConstructionNeedsRegionAndBucket ==
    /\ Constructed <=> (config.region # "" /\ config.bucketName # "")
    /\ Constructed => /\ IsGiven(instance.s3)
                      /\ instance.s3[1].region = config.region
                      /\ instance.bucketName = config.bucketName
    /\ ~Constructed => /\ instance.status = "threw"
                       /\ instance.error.name = "Error"
                       /\ instance.s3 = None
                       /\ \A c \in Calls : calls[c] = IdleCall

\* a configuration with a region and no bucket name: the constructor has
\* thrown, and there is no store client
C18_Witness ==
    /\ config.region = "us-east-1" /\ config.bucketName = ""
    /\ instance.status = "threw"
    /\ instance.error = ConfigError("S3 bucket name is required")
    /\ instance.s3 = None

\* C19: a signed URL expires after options.expiresIn when the caller gives
\* one, and otherwise after the configured urlExpirationSeconds, 3600 when
\* the configuration gives none; no call changes the instance's default.
C19_SignedUrlExpiry ==
    /\ instance = Construct(config)
    /\ \A c \in CallsOf("getSignedUrl") :
          calls[c].status = "returned"
             => calls[c].result.expiresIn =
                   IF IsGiven(calls[c].args.options.expiresIn)
                   THEN calls[c].args.options.expiresIn[1]
                   ELSE IF IsGiven(config.urlExpirationSeconds)
                   THEN config.urlExpirationSeconds[1]
                   ELSE 3600

\* one URL signed with an override of 60 seconds and another, without an
\* override, with the default of 3600
C19_Witness ==
    /\ ~IsGiven(config.urlExpirationSeconds)
    /\ calls["c1"].op = "getSignedUrl" /\ calls["c2"].op = "getSignedUrl"
    /\ calls["c1"].status = "returned" /\ calls["c2"].status = "returned"
    /\ calls["c1"].args.options.expiresIn = Some(60)
    /\ calls["c1"].result.expiresIn = 60
    /\ calls["c2"].args.options.expiresIn = None
    /\ calls["c2"].result.expiresIn = 3600

SingleRequestOps == {"upload", "download", "exists", "delete", "copy", "list"}

\* the failure of request req is one the call has to pass on: any failure
\* for upload, delete, copy and list, any but not-found for download and
\* exists
MustPropagate(op, req) ==
    /\ req.st = "failed"
    /\ op \in {"download", "exists"} => req.error.name # "NoSuchKey"

\* C21: a call of upload, download, exists, delete, copy or list sends its
\* one request once; when the store fails it (for download and exists: with
\* anything but not-found) the call has thrown the store's own error,
\* unwrapped, and has no result.
C21_NoRetryNoSuppression ==
    \A c \in Calls : calls[c].op \in SingleRequestOps =>
        /\ Len(calls[c].reqs) = 1
        /\ MustPropagate(calls[c].op, calls[c].reqs[1])
              => /\ calls[c].status = "thrown"
                 /\ calls[c].error = calls[c].reqs[1].error
                 /\ calls[c].result = NoResult

\* a download the store refused has thrown AccessDenied
C21_Witness ==
    /\ calls["c1"].op = "download"
    /\ calls["c1"].status = "thrown"
    /\ calls["c1"].reqs[1].st = "failed"
    /\ calls["c1"].error.name = "AccessDenied"

\* C22 as stated: with an explicit key, the stored name is the last path
\* segment of the key when the key holds a slash, and originalName when it
\* holds none.
C22_StoredNameOfExplicitKey ==
    \A c \in CallsOf("upload") :
        LET options == calls[c].args.options
            key == options.key[1]
        IN  (Truthy(options.key) /\ calls[c].status = "returned") =>
                calls[c].result.storedName =
                    IF Includes(key, "/")
                    THEN SubSeq(key, LastIndexOf(key, "/") + 1, Len(key))
                    ELSE calls[c].args.file.originalName

\* the bytes of the body the store answered the download of call c with
BodyBytes(call) == call.reqs[1].response[1].Body[1]

\* C23: a download in buffer mode returns a buffer only in the step in which
\* the body stream signals its end, every chunk having arrived, and the
\* buffer is the chunks joined in arrival order; in stream mode, or with no
\* mode, it returns in the step of the store's answer, with the store's
\* stream and every chunk of it unread.
C23_BufferDrainsStreamHands ==
    [][\A c \in Calls :
          (/\ calls'[c].op = "download"
           /\ calls[c].status = "pending"
           /\ calls'[c].status = "returned"
           /\ calls'[c].result.absent = FALSE)
             => IF OrElse(calls[c].args.mode, "stream") = "buffer"
                THEN /\ Draining(c)
                     /\ calls[c].resolved.stream = <<>>
                     /\ calls[c].resolved.chunks = StreamOf(BodyBytes(calls[c]))
                     /\ calls'[c].result.buffer = BodyBytes(calls[c])
                ELSE /\ InFlight(c, 1)
                     /\ calls'[c].resolved = <<>>
                     /\ calls'[c].result.stream = StreamOf(BodyBytes(calls'[c]))
      ]_vars

\* a buffer download has returned the three bytes of a three-chunk stream
C23_Witness ==
    /\ calls["c1"].op = "download"
    /\ calls["c1"].args.mode = Some("buffer")
    /\ calls["c1"].status = "returned"
    /\ calls["c1"].result.absent = FALSE
    /\ Len(calls["c1"].resolved.chunks) = 3
    /\ calls["c1"].result.buffer = <<7, 8, 9>>

\* the body stream of download call c has emitted an error
StreamFailed(c) ==
    /\ calls[c].op = "download"
    /\ calls[c].reqs[1].st = "ok"
    /\ calls[c].resolved # <<>>
    /\ IsGiven(calls[c].resolved.failure)

\* C30: whenever the body stream has emitted an error during a buffer
\* download, the download has thrown that same error and returned nothing,
\* neither a partial buffer nor the absent value.
C30_StreamErrorAlwaysThrown ==
    \A c \in Calls : StreamFailed(c) =>
        /\ calls[c].status = "thrown"
        /\ calls[c].error = calls[c].resolved.failure[1]
        /\ calls[c].result = NoResult

\* the keys of the two arguments of moveObject call c that hold an object
MoveKeysHeld(c, store) ==
    {calls[c].args.sourceKey, calls[c].args.destKey} \cap DOMAIN store

\* the bytes being moved: those at the source while it is there, those at
\* the destination once the source is gone
MovedBytes(c) ==
    IF calls[c].args.sourceKey \in DOMAIN objects
    THEN objects[calls[c].args.sourceKey].body
    ELSE objects[calls[c].args.destKey].body

\* C24: no step taken during or after a moveObject loses the object: the
\* bytes being moved are still held at the source key or at the destination
\* key after the step, for all keys, source equal to destination included.
C24_MoveNeverLoses ==
    [][\A c \in Calls :
          (calls[c].op = "moveObject" /\ MoveKeysHeld(c, objects) # {})
             => \E k \in MoveKeysHeld(c, objects') :
                    objects'[k].body = MovedBytes(c)
      ]_vars

\* Key Builder(base, F) followed by "/": what every key inside folder F
\* begins with
FolderRoot(folder) == buildFullKey(<<>>, folder) \o <<"/">>

\* C25: every entry a list call with a folder returns has a key inside that
\* folder, one that begins with the folder's full key followed by a slash;
\* objects of a sibling folder whose name starts with the folder's name are
\* not returned.
C25_ListFolderIsolation ==
    \A c \in CallsOf("list") :
        (calls[c].status = "returned" /\ Truthy(calls[c].args.options.folder))
            => \A i \in 1..Len(calls[c].result.entries) :
                   StartsWith(calls[c].result.entries[i].key,
                              FolderRoot(calls[c].args.options.folder))

\* uploadIfAbsent call c has called uploadFn
RanUpload(c) == calls[c].op = "uploadIfAbsent" /\ Len(calls[c].reqs) = 2

\* C26: of the uploadIfAbsent calls for one key at most one runs its
\* upload, and no step of such a call changes an object that is already at
\* its key, in every interleaving of the probes and the uploads.
C26_IfAbsentUploadsOnce ==
    [][/\ \A c, d \in Calls :
             (c # d /\ RanUpload(c)' /\ RanUpload(d)')
                => calls'[c].args.s3Key # calls'[d].args.s3Key
       /\ \A k \in DOMAIN objects :
             k \in DOMAIN objects' /\ objects'[k] = objects[k]
      ]_vars

\* exists call e and download call d have ended, were about the same key
\* and got the same answer from the store
SameAnswer(e, d) ==
    /\ calls[e].op = "exists" /\ Done(e)
    /\ calls[d].op = "download" /\ Done(d)
    /\ calls[e].args.key = calls[d].args.key
    /\ calls[e].reqs[1].st = calls[d].reqs[1].st
    /\ calls[e].reqs[1].error = calls[d].reqs[1].error
    /\ calls[e].reqs[1].response = calls[d].reqs[1].response

ExistsSays(e, value) ==
    calls[e].status = "returned" /\ calls[e].result = [value |-> value]

DownloadAbsent(d) == calls[d].status = "returned" /\ calls[d].result = Null

DownloadPresent(d) == calls[d].status = "returned" /\ calls[d].result # Null

\* exists and download agree on presence
PresenceAgrees(e, d) ==
    /\ ExistsSays(e, TRUE) <=> DownloadPresent(d)
    /\ ExistsSays(e, FALSE) <=> DownloadAbsent(d)

\* the store answered call c with a success that carries no body
AnsweredBodyless(c) ==
    /\ calls[c].reqs[1].st = "ok"
    /\ ~IsGiven(calls[c].reqs[1].response[1].Body)

\* C27 as stated: for every key and every answer of the store, a success
\* without a body included, exists returns true exactly when download
\* returns a result and false exactly when download returns the absent
\* value.
C27_PresenceAlwaysAgrees ==
    \A e, d \in Calls : SameAnswer(e, d) => PresenceAgrees(e, d)

\* C27: for every key and every answer of the store that is an error or a
\* success with a body, exists returns true exactly when download returns a
\* result and false exactly when download returns the absent value; on a
\* success without a body exists returns true and download the absent value.
C27_PresenceAgreesGivenBody ==
    \A e, d \in Calls :
        SameAnswer(e, d) =>
            IF AnsweredBodyless(d)
            THEN ExistsSays(e, TRUE) /\ DownloadAbsent(d)
            ELSE PresenceAgrees(e, d)

\* the store answered both calls about an object with a success without a
\* body: exists returned true and download the absent value
C27_Witness ==
    \E e, d \in Calls :
        /\ SameAnswer(e, d)
        /\ AnsweredBodyless(d)
        /\ calls[d].args.key = kA
        /\ kA \in DOMAIN objects
        /\ ExistsSays(e, TRUE)
        /\ DownloadAbsent(d)

\* hasMore and the presence of the cursor say the same in a Listing Page
FlagMatchesCursor(result) == result.hasMore <=> IsGiven(result.continuationToken)

\* the calls of list a pagination loop needs: one per page of the objects
\* under its prefix, one when there are none
PagesNeeded(c) ==
    LET n == Cardinality(UnderPrefix(c))
        size == OrElse(calls[c].args.maxResults, DefaultMaxKeys)
    IN  IF n = 0 THEN 1 ELSE (n + size - 1) \div size

\* C28: in every Listing Page list returns, hasMore is true exactly when
\* continuationToken is defined; after every turn a loop that goes on while
\* the token is defined and one that goes on while hasMore is true decide
\* alike, so that either has fetched, when it returns, the same pages, one
\* per page of the objects under the prefix; and both come to an end.
C28_HasMoreIffToken ==
    /\ [](\A c \in CallsOf("list") :
             calls[c].status = "returned" => FlagMatchesCursor(calls[c].result))
    /\ [](\A c \in CallsOf("listAll") :
             /\ \A i \in 1..Len(calls[c].reqs) :
                   calls[c].reqs[i].st = "ok"
                      => LET result == ListResult(calls[c].reqs[i].response[1])
                         IN  /\ FlagMatchesCursor(result)
                             /\ GoesOn("hasMore", result) = GoesOn("token", result)
             /\ calls[c].status = "returned"
                   => Len(calls[c].reqs) = PagesNeeded(c))
    /\ \A c \in Calls, while \in Whiles :
          (calls[c].op = "listAll" /\ calls[c].args.while = while)
             ~> (calls[c].status = "returned" \/ calls[c].status = "thrown")

\* a loop that goes on while the token is defined has returned after three
\* turns with pages of two entries, the last page holding one
C28_Witness ==
    \E c \in CallsOf("listAll") :
        /\ calls[c].status = "returned"
        /\ calls[c].args.while = "token"
        /\ calls[c].args.maxResults = Some(2)
        /\ Len(calls[c].reqs) = 3
        /\ Len(calls[c].result) = 5
        /\ calls[c].reqs[2].response[1].IsTruncated = Some(TRUE)
        /\ calls[c].reqs[3].response[1].NextContinuationToken = None

\* the prefix list({folder: folder}) sends to the store, empty when it
\* sends none
FolderPrefixSent(folder) ==
    OrElse(ListRequests(ListOptions(folder, None, None, None))[1].prefix, <<>>)

\* C29: for every base path, every folder, with or without a leading or
\* trailing slash, and every stored name, the key an upload with that folder
\* and no explicit key sends to the store begins with the prefix that list
\* sends for the same folder.
C29_UploadKeyUnderListPrefix ==
    \A c \in CallsOf("upload") :
        ~Truthy(calls[c].args.options.key)
            => StartsWith(calls[c].reqs[1].key,
                          FolderPrefixSent(calls[c].args.options.folder))

\* an upload into a folder given with a leading slash, under a base path,
\* has stored its object below the prefix list sends for that folder
C29_Witness ==
    \E c \in CallsOf("upload") :
        /\ calls[c].status = "returned"
        /\ calls[c].args.options.key = None
        /\ calls[c].args.options.folder = Some(<<"/", "a", "v">>)
        /\ basePath = <<"u", "p">>
        /\ FolderPrefixSent(calls[c].args.options.folder) = <<"u", "p", "/", "a", "v">>
        /\ calls[c].result.key = <<"u", "p", "/", "a", "v", "/", "r", ".", "j">>
        /\ calls[c].result.key \in DOMAIN objects

====
